---- MODULE Spec2Model ----
(***************************************************************************)
(* RAMForge durable key-value core: the Robin-Hood store (storage.c), the  *)
(* append-only log engine (aof_batch.c), the snapshot engine and the       *)
(* persistence facade (persistence.c) and the write handler (app_routes.c).*)
(***************************************************************************)
EXTENDS Integers, Sequences, FiniteSets, TLC

(***************************************************************************)
(* Bounds of the model.                                                    *)
(***************************************************************************)
\* number of filler keys the store specifications insert (in FillKeys order)
MaxFill == 9
\* number of free save/remove operations on ActiveKeys in one behaviour
MaxOps == 5
\* number of write requests (create_user_fast calls) in one behaviour
MaxAppends == 2
\* number of injected write(2) failures in one behaviour
MaxFaults == 1
\* number of crashes in one behaviour
MaxCrashes == 1
\* number of AOF_rewrite / Persistence_compact calls in one behaviour
MaxRewrites == 1
\* number of snapshot timer ticks in one behaviour
MaxSnaps == 1

(***************************************************************************)
(* 32-bit words.  TLC integers are signed 32-bit, so a uint32_t is kept as *)
(* its four little-endian bytes <<b0, b1, b2, b3>>.                        *)
(***************************************************************************)
\* a ^ b on n-bit values, two bits at a time
Xor2(a, b) == ((a + b) % 2) + 2 * ((((a \div 2) % 2) + ((b \div 2) % 2)) % 2)

XorNibble(a, b) == Xor2(a % 4, b % 4) + 4 * Xor2(a \div 4, b \div 4)

XorByte(a, b) == XorNibble(a % 16, b % 16) + 16 * XorNibble(a \div 16, b \div 16)

Xor32(x, y) ==
    << XorByte(x[1], y[1]), XorByte(x[2], y[2]), XorByte(x[3], y[3]), XorByte(x[4], y[4]) >>

\* the little-endian bytes of a non-negative int (int id / uint32_t size)
LE32(n) == << n % 256, (n \div 256) % 256, (n \div 65536) % 256, (n \div 16777216) % 256 >>

\* x >> 16, x >> 15 on the byte form
Shr16(x) == << x[3], x[4], 0, 0 >>

Shr15(x) ==
    LET lo == x[3] + 256 * x[4]              \* bits 16..31
        b1 == x[2] \div 128                  \* bit 15
        v  == lo * 2 + b1                    \* bits 15..31, 17 bits
    IN  << v % 256, (v \div 256) % 256, (v \div 65536) % 256, 0 >>

\* x * m mod 2^32, schoolbook on bytes
Mul32(x, m) ==
    LET p0 == x[1]*m[1]
        p1 == x[1]*m[2] + x[2]*m[1] + (p0 \div 256)
        p2 == x[1]*m[3] + x[2]*m[2] + x[3]*m[1] + (p1 \div 256)
        p3 == x[1]*m[4] + x[2]*m[3] + x[3]*m[2] + x[4]*m[1] + (p2 \div 256)
    IN  << p0 % 256, p1 % 256, p2 % 256, p3 % 256 >>

\* 0x7feb352d and 0x846ca68b
MixMul1 == << 45, 53, 235, 127 >>
MixMul2 == << 139, 166, 108, 132 >>

\* storage.c mix32
mix32(x) ==
    LET a == Xor32(x, Shr16(x))
        b == Mul32(a, MixMul1)
        c == Xor32(b, Shr15(b))
        d == Mul32(c, MixMul2)
    IN  Xor32(d, Shr16(d))

(***************************************************************************)
(* crc32c.h: crc32c(prev, buf, len), CRC-32C (Castagnoli, reflected        *)
(* polynomial 0x82F63B78), seed and result complemented.                   *)
(***************************************************************************)
CrcPoly == << 120, 59, 246, 130 >>

Shr1(x) ==
    << (x[1] \div 2) + 128 * (x[2] % 2), (x[2] \div 2) + 128 * (x[3] % 2),
       (x[3] \div 2) + 128 * (x[4] % 2), x[4] \div 2 >>

Shr8(x) == << x[2], x[3], x[4], 0 >>

Not32(x) == << 255 - x[1], 255 - x[2], 255 - x[3], 255 - x[4] >>

\* one step of the bitwise form: crc = (crc >> 1) ^ (poly & -(crc & 1))
CrcBit(c) == IF c[1] % 2 = 1 THEN Xor32(Shr1(c), CrcPoly) ELSE Shr1(c)

\* the table entry of byte i: eight bit steps of i
CrcEntry(i) ==
    CrcBit(CrcBit(CrcBit(CrcBit(CrcBit(CrcBit(CrcBit(CrcBit(<< i, 0, 0, 0 >>))))))))

\* the 256-entry table, entries lo..hi, as a sequence (entry i at index i + 1)
RECURSIVE CrcTableOf(_, _)
CrcTableOf(lo, hi) ==
    IF lo = hi THEN << CrcEntry(lo) >>
    ELSE CrcTableOf(lo, (lo + hi) \div 2) \o CrcTableOf((lo + hi) \div 2 + 1, hi)

CrcTable == CrcTableOf(0, 255)

\* crc = table[(crc ^ byte) & 0xff] ^ (crc >> 8)
CrcByte(c, b) == Xor32(CrcTable[XorByte(c[1], b) + 1], Shr8(c))

\* the byte loop over buf[i..]; c is the running value
\* (the test on c only makes the evaluation of c strict)
RECURSIVE CrcBytes(_, _, _)
CrcBytes(c, buf, i) ==
    IF i > Len(buf) \/ c = << >> THEN c
    ELSE CrcBytes(CrcByte(c, buf[i]), buf, i + 1)

\* a crc that leaves out the final complement
crc32cNoFinalXor(prev, buf) == CrcBytes(Not32(prev), buf, 1)

crc32c(prev, buf) == Not32(CrcBytes(Not32(prev), buf, 1))

Zero32 == << 0, 0, 0, 0 >>

(***************************************************************************)
(* Keys and payloads.                                                      *)
(***************************************************************************)
\* keys the store specifications save and remove freely: 2, 33 and 52 share
\* home slot 1 at capacity 16 and at capacity 32; 4 has home 1 at 16, 17 at 32
ActiveKeys == {2, 33, 4}
\* keys inserted once each, in this order, to fill the table up to a resize
FillKeys == << 1, 42, 53, 23, 0, 41, 17, 7, 15, 18, 25, 27 >>
FillVal == << 102 >>
\* ids used by the write handler
Ids == {1, 53}
Payloads == { << 97 >>, << 120, 121 >> }

StoreKeys == ActiveKeys \cup {FillKeys[i] : i \in 1..Len(FillKeys)} \cup Ids

\* mix32 of every key of the model, computed once and kept as a table
HashOf == [k \in StoreKeys |-> mix32(LE32(k))] @@ << >>

\* mix32((uint32_t)id)
Hash(id) == IF id \in StoreKeys THEN HashOf[id] ELSE mix32(LE32(id))

\* hash & mask for mask = capacity - 1, capacity a power of two <= 65536
HashAnd(h, capacity) == (h[1] + 256 * h[2]) % capacity

(***************************************************************************)
(* storage.c: the Robin-Hood table.                                        *)
(***************************************************************************)
BUCKET_EMPTY == 0
BUCKET_OCCUPIED == 1
BUCKET_DELETED == 2
InitCapacity == 16

\* a value buffer that is not allocated (never read by the code)
NoVal == << >>
\* no value: a key that is not in the table
Absent == << >>
\* an output buffer large enough for every payload of the model
BigBuf == 8

EmptyTable(capacity) ==
    [ capacity  |-> capacity,
      size      |-> 0,
      flags     |-> [i \in 0..capacity-1 |-> BUCKET_EMPTY],
      keys      |-> [i \in 0..capacity-1 |-> 0],
      values    |-> [i \in 0..capacity-1 |-> NoVal],
      val_sizes |-> [i \in 0..capacity-1 |-> 0] ]

storage_init == EmptyTable(InitCapacity)

\* a probe loop whose Robin-Hood swap places the new entry and returns,
\* without carrying the displaced entry on
RECURSIVE SaveProbeDropsDisplaced(_, _, _, _, _)
SaveProbeDropsDisplaced(s, idx, dist, nk, nv) ==
    IF s.flags[idx] # BUCKET_OCCUPIED
    THEN [s EXCEPT !.flags[idx] = BUCKET_OCCUPIED,
                   !.keys[idx] = nk,
                   !.values[idx] = nv,
                   !.val_sizes[idx] = Len(nv),
                   !.size = s.size + 1]
    ELSE IF (idx + s.capacity - HashAnd(Hash(s.keys[idx]), s.capacity)) % s.capacity < dist
         \/ s.keys[idx] = nk
    THEN [s EXCEPT !.keys[idx] = nk, !.values[idx] = nv, !.val_sizes[idx] = Len(nv)]
    ELSE SaveProbeDropsDisplaced(s, (idx + 1) % s.capacity, dist + 1, nk, nv)

RECURSIVE SaveProbe(_, _, _, _, _)
RECURSIVE storage_save(_, _, _)
RECURSIVE RehashFrom(_, _, _)

\* the for(;;) loop of storage_save: s the table, idx/dist the probe position,
\* (nk, nv) the entry being carried
SaveProbe(s, idx, dist, nk, nv) ==
    IF s.flags[idx] # BUCKET_OCCUPIED
    THEN [s EXCEPT !.flags[idx] = BUCKET_OCCUPIED,
                   !.keys[idx] = nk,
                   !.values[idx] = nv,
                   !.val_sizes[idx] = Len(nv),
                   !.size = s.size + 1]
    ELSE
      LET cur_hash == HashAnd(Hash(s.keys[idx]), s.capacity)
          cur_dist == (idx + s.capacity - cur_hash) % s.capacity
      IN
      IF cur_dist < dist
      THEN SaveProbe([s EXCEPT !.keys[idx] = nk,
                               !.values[idx] = nv,
                               !.val_sizes[idx] = Len(nv)],
                     (idx + 1) % s.capacity, cur_dist + 1,
                     s.keys[idx], s.values[idx])
      ELSE IF s.keys[idx] = nk
      THEN [s EXCEPT !.values[idx] = nv, !.val_sizes[idx] = Len(nv)]
      ELSE SaveProbe(s, (idx + 1) % s.capacity, dist + 1, nk, nv)

\* the reinsertion loop of storage_rehash: old slots i..old_cap-1 into table s
\* (the test on s.capacity only makes the evaluation of s strict)
RehashFrom(old, i, s) ==
    IF i = old.capacity \/ s.capacity = 0 THEN s
    ELSE IF old.flags[i] = BUCKET_OCCUPIED
         THEN RehashFrom(old, i + 1, storage_save(s, old.keys[i], old.values[i]))
         ELSE RehashFrom(old, i + 1, s)

storage_rehash(s) == RehashFrom(s, 0, EmptyTable(2 * s.capacity))

\* a growth test that leaves out the entry about to be inserted
NeedsGrowLate(s) == 10 * s.size > 7 * s.capacity

\* (double)(size + 1) / capacity > 0.7; exact in integers because 7 * capacity
\* is never a multiple of 10 for a power of two
NeedsGrow(s) == 10 * (s.size + 1) > 7 * s.capacity

storage_save(s, id, data) ==
    LET t == IF NeedsGrow(s) THEN storage_rehash(s) ELSE s
    IN  SaveProbe(t, HashAnd(Hash(id), t.capacity), 0, id, data)

RECURSIVE GetProbeTruncating(_, _, _, _, _)
\* a lookup that copies as many bytes as fit and reports a hit
GetProbeTruncating(s, id, idx, dist, out_sz) ==
    IF dist >= s.capacity THEN [ret |-> 0, out |-> NoVal]
    ELSE IF s.flags[idx] = BUCKET_EMPTY THEN [ret |-> 0, out |-> NoVal]
    ELSE IF s.flags[idx] = BUCKET_OCCUPIED /\ s.keys[idx] = id
    THEN IF out_sz < s.val_sizes[idx]
         THEN [ret |-> 1, out |-> SubSeq(s.values[idx], 1, out_sz)]
         ELSE [ret |-> 1, out |-> s.values[idx]]
    ELSE GetProbeTruncating(s, id, (idx + 1) % s.capacity, dist + 1, out_sz)

\* a probe bound of twice the capacity
ProbeLimitDouble(s) == 2 * s.capacity

\* for (size_t dist = 0; dist < st->capacity; dist++)
ProbeLimit(s) == s.capacity

RECURSIVE GetProbe(_, _, _, _, _)
\* the loop of storage_get; the result is the return value and the bytes
\* copied into out (NoVal when nothing is copied)
GetProbe(s, id, idx, dist, out_sz) ==
    IF dist >= ProbeLimit(s) THEN [ret |-> 0, out |-> NoVal]
    ELSE IF s.flags[idx] = BUCKET_EMPTY THEN [ret |-> 0, out |-> NoVal]
    ELSE IF s.flags[idx] = BUCKET_OCCUPIED /\ s.keys[idx] = id
    THEN IF out_sz < s.val_sizes[idx]
         THEN [ret |-> 0, out |-> NoVal]
         ELSE [ret |-> 1, out |-> s.values[idx]]
    ELSE GetProbe(s, id, (idx + 1) % s.capacity, dist + 1, out_sz)

storage_get(s, id, out_sz) ==
    GetProbe(s, id, HashAnd(Hash(id), s.capacity), 0, out_sz)

RECURSIVE RemoveProbe(_, _, _, _)
RemoveProbe(s, id, idx, dist) ==
    IF dist >= ProbeLimit(s) THEN s
    ELSE IF s.flags[idx] = BUCKET_EMPTY THEN s
    ELSE IF s.flags[idx] = BUCKET_OCCUPIED /\ s.keys[idx] = id
    THEN [s EXCEPT !.values[idx] = NoVal,
                   !.flags[idx] = BUCKET_DELETED,
                   !.size = s.size - 1]
    ELSE RemoveProbe(s, id, (idx + 1) % s.capacity, dist + 1)

storage_remove(s, id) ==
    RemoveProbe(s, id, HashAnd(Hash(id), s.capacity), 0)

\* the number of slots the loop of storage_get, and the identical loop of
\* storage_remove, examines for id from probe position idx/dist
RECURSIVE LookupProbes(_, _, _, _)
LookupProbes(s, id, idx, dist) ==
    IF dist >= ProbeLimit(s) THEN dist
    ELSE IF s.flags[idx] = BUCKET_EMPTY THEN dist + 1
    ELSE IF s.flags[idx] = BUCKET_OCCUPIED /\ s.keys[idx] = id THEN dist + 1
    ELSE LookupProbes(s, id, (idx + 1) % s.capacity, dist + 1)

\* the number of slots the for(;;) loop of storage_save examines, n counting
\* the current one; the count stops past 2 * capacity, where the loop has
\* seen every slot occupied twice and goes on for ever
RECURSIVE SaveProbes(_, _, _, _, _)
SaveProbes(s, idx, dist, nk, n) ==
    IF n > 2 * s.capacity THEN n
    ELSE IF s.flags[idx] # BUCKET_OCCUPIED THEN n
    ELSE
      LET cur_hash == HashAnd(Hash(s.keys[idx]), s.capacity)
          cur_dist == (idx + s.capacity - cur_hash) % s.capacity
      IN
      IF cur_dist < dist
      THEN SaveProbes(s, (idx + 1) % s.capacity, cur_dist + 1, s.keys[idx], n + 1)
      ELSE IF s.keys[idx] = nk THEN n
      ELSE SaveProbes(s, (idx + 1) % s.capacity, dist + 1, nk, n + 1)

\* an iteration that calls fn for every slot that is not empty
RECURSIVE IterFromNonEmpty(_, _)
IterFromNonEmpty(s, i) ==
    IF i = s.capacity THEN << >>
    ELSE IF s.flags[i] # BUCKET_EMPTY
         THEN << [id |-> s.keys[i], data |-> s.values[i], sz |-> s.val_sizes[i]] >>
              \o IterFromNonEmpty(s, i + 1)
         ELSE IterFromNonEmpty(s, i + 1)

\* storage_iterate: the calls fn(key, value, size) in slot order
RECURSIVE IterFrom(_, _)
IterFrom(s, i) ==
    IF i = s.capacity THEN << >>
    ELSE IF s.flags[i] = BUCKET_OCCUPIED
         THEN << [id |-> s.keys[i], data |-> s.values[i], sz |-> s.val_sizes[i]] >>
              \o IterFrom(s, i + 1)
         ELSE IterFrom(s, i + 1)

storage_iterate(s) == IterFrom(s, 0)

(***************************************************************************)
(* aof_batch.c: record framing and replay.                                 *)
(***************************************************************************)
\* crc32c(0, &id, 4); crc32c(crc, &size, 4); crc32c(crc, data, size)
RecordCrcOf(id, data) ==
    crc32c(crc32c(crc32c(Zero32, LE32(id)), LE32(Len(data))), data)

\* that crc for every record the handler can append, computed once and kept
\* as a table
RecordCrcTable == [r \in Ids \X Payloads |-> RecordCrcOf(r[1], r[2])] @@ << >>

RecordCrc(id, data) ==
    IF << id, data >> \in DOMAIN RecordCrcTable
    THEN RecordCrcTable[<< id, data >>]
    ELSE RecordCrcOf(id, data)

\* a record writer whose crc leaves out the size field
RecordFieldsCrcSkipsSize(id, data) ==
    << LE32(id), LE32(Len(data)), data, crc32c(crc32c(Zero32, LE32(id)), data) >>

\* the four buffers aof_write_record hands to safe_write, in order
RecordFields(id, data) ==
    << LE32(id), LE32(Len(data)), data, RecordCrc(id, data) >>

RecordBytes(id, data) ==
    LET f == RecordFields(id, data) IN f[1] \o f[2] \o f[3] \o f[4]

\* the int / uint32_t held by four little-endian bytes
IntOf(b) ==
    b[1] + 256 * b[2] + 65536 * b[3]
      + 16777216 * (IF b[4] < 128 THEN b[4] ELSE b[4] - 256)

\* a file: ex = it exists, data = its bytes, synced = bytes made durable
NoFile == [ex |-> FALSE, data |-> << >>, synced |-> 0]
EmptyFile == [ex |-> TRUE, data |-> << >>, synced |-> 0]

\* a read loop of AOF_load that does not compare the stored crc
RECURSIVE LoadFromUnverified(_, _, _)
LoadFromUnverified(data, pos, s) ==
    LET rem == Len(data) - pos
        szb == SubSeq(data, pos + 5, pos + 8)
        size == szb[1] + 256 * szb[2]
    IN
    IF rem < 4 THEN [ok |-> TRUE, st |-> s]
    ELSE IF rem < 8 \/ szb[3] # 0 \/ szb[4] # 0 \/ rem < 12 + size
         THEN [ok |-> FALSE, st |-> s]
    ELSE LoadFromUnverified(data, pos + 12 + size,
             storage_save(s, IntOf(SubSeq(data, pos + 1, pos + 4)),
                          SubSeq(data, pos + 9, pos + 8 + size)))

\* the read loop of AOF_load over the bytes data from offset pos into table s;
\* ok = FALSE is the corrupt: exit(2) path
RECURSIVE LoadFrom(_, _, _)
LoadFrom(data, pos, s) ==
    LET rem == Len(data) - pos
        idb == SubSeq(data, pos + 1, pos + 4)
        szb == SubSeq(data, pos + 5, pos + 8)
        size == szb[1] + 256 * szb[2]
        buf == SubSeq(data, pos + 9, pos + 8 + size)
        crc_file == SubSeq(data, pos + 9 + size, pos + 12 + size)
        crc == crc32c(crc32c(crc32c(Zero32, idb), szb), buf)
    IN
    IF rem < 4 THEN [ok |-> TRUE, st |-> s]
    ELSE IF rem < 8 THEN [ok |-> FALSE, st |-> s]
    ELSE IF szb[3] # 0 \/ szb[4] # 0 \/ rem - 8 < size THEN [ok |-> FALSE, st |-> s]
    ELSE IF rem - 8 - size < 4 THEN [ok |-> FALSE, st |-> s]
    ELSE IF crc # crc_file THEN [ok |-> FALSE, st |-> s]
    ELSE LoadFrom(data, pos + 12 + size, storage_save(s, IntOf(idb), buf))

\* a replay that keeps, for a key the table already holds, the value it has
RECURSIVE SaveAll(_, _)
SaveAll(recs, s) ==
    IF recs = << >> THEN s
    ELSE SaveAll(Tail(recs), storage_save(s, Head(recs).id, Head(recs).data))

AOF_loadUnderSnapshot(f, s) ==
    LET r == IF ~f.ex THEN [ok |-> TRUE, st |-> storage_init]
             ELSE LoadFrom(f.data, 0, storage_init)
    IN  [ok |-> r.ok, st |-> SaveAll(storage_iterate(s), r.st)]

\* AOF_load(st) on the file f at g_path
AOF_load(f, s) ==
    IF ~f.ex THEN [ok |-> TRUE, st |-> s] ELSE LoadFrom(f.data, 0, s)

\* the pairs a table holds, as get sees them
StoreMap(s) ==
    [k \in StoreKeys |->
        LET r == storage_get(s, k, BigBuf) IN IF r.ret = 1 THEN r.out ELSE Absent]

(***************************************************************************)
(* persistence.c: the snapshot file.                                       *)
(***************************************************************************)
\* a size_t (8 bytes, little-endian) holding a small length
LE64(n) == LE32(n) \o Zero32

\* rdb_iter_crc_cb over the calls of storage_iterate: the bytes written and
\* the rolling crc
RECURSIVE RdbDump(_, _, _)
RdbDump(recs, bytes, crc) ==
    IF recs = << >> THEN [bytes |-> bytes, crc |-> crc]
    ELSE LET r == Head(recs)
             idb == LE32(r.id)
             szb == LE64(r.sz)
         IN  RdbDump(Tail(recs), bytes \o idb \o szb \o r.data,
                     crc32c(crc32c(crc32c(crc, idb), szb), r.data))

\* storage_iterate_crc(st, out, &crc); fwrite(&crc, 4, 1, out): the snapshot
RdbImage(s) ==
    LET d == RdbDump(storage_iterate(s), << >>, Zero32) IN d.bytes \o d.crc

\* a read loop of load_rdb that does not compare the footer
RECURSIVE RdbLoadFromUnverified(_, _, _, _)
RdbLoadFromUnverified(data, pos, crc, s) ==
    LET fsz == Len(data)
        szb == SubSeq(data, pos + 5, pos + 12)
        sz  == szb[1] + 256 * szb[2]
    IN
    IF pos >= fsz - 4 THEN [ok |-> TRUE, st |-> s]
    ELSE IF fsz - pos < 12 THEN [ok |-> FALSE, st |-> s]
    ELSE IF (\E i \in 3..8 : szb[i] # 0) \/ sz = 0 \/ fsz - pos - 12 < sz
         THEN [ok |-> FALSE, st |-> s]
    ELSE RdbLoadFromUnverified(data, pos + 12 + sz, crc,
             storage_save(s, IntOf(SubSeq(data, pos + 1, pos + 4)),
                          SubSeq(data, pos + 13, pos + 12 + sz)))

\* the read loop of load_rdb: fsz the file size, pos the read position
RECURSIVE RdbLoadFrom(_, _, _, _)
RdbLoadFrom(data, pos, crc, s) ==
    LET fsz == Len(data)
        idb == SubSeq(data, pos + 1, pos + 4)
        szb == SubSeq(data, pos + 5, pos + 12)
        sz  == szb[1] + 256 * szb[2]
        buf == SubSeq(data, pos + 13, pos + 12 + sz)
        big == \E i \in 3..8 : szb[i] # 0
    IN
    IF pos >= fsz - 4
    THEN [ok |-> crc = SubSeq(data, fsz - 3, fsz), st |-> s]
    ELSE IF fsz - pos < 12 THEN [ok |-> FALSE, st |-> s]
    ELSE IF big \/ sz = 0 \/ fsz - pos - 12 < sz THEN [ok |-> FALSE, st |-> s]
    ELSE RdbLoadFrom(data, pos + 12 + sz,
                     crc32c(crc32c(crc32c(crc, idb), szb), buf),
                     storage_save(s, IntOf(idb), buf))

\* load_rdb(st) on the file f at g_rdb_path; ok = FALSE is the exit(2) path
load_rdb(f, s) ==
    IF ~f.ex \/ Len(f.data) < 4 THEN [ok |-> TRUE, st |-> s]
    ELSE RdbLoadFrom(f.data, 0, Zero32, s)

\* what a write of buf at offset 0 leaves in a file holding old
Overlay(old, buf) == buf \o SubSeq(old, Len(buf) + 1, Len(old))

\* Persistence_init on the files r at g_rdb_path and a at the AOF path:
\* load_rdb, then AOF_load; ok = FALSE when either one exits
Persistence_init(r, a) ==
    LET x == load_rdb(r, storage_init)
    IN  IF x.ok THEN AOF_load(a, x.st) ELSE x

(***************************************************************************)
(* State.                                                                  *)
(***************************************************************************)
VARIABLES
    st,          \* the worker's Storage
    last,        \* history: per key, the value of its latest save, or Absent
    fill,        \* number of scripted store calls (FillKeys, ChurnScript) made so far
    ops,         \* number of free store operations done so far
    flush_ms,    \* g_aof_flush_ms: 0 is appendfsync always
    aof,         \* the file at g_path
    tmp,         \* the file at g_path.tmp
    fd,          \* the live append fd: "closed", "open" (on the file at g_path) or "stale"
    mode_always, \* aof_batch.c statics
    ring, cap, head, tail, running,
    lock,        \* owner of the mutex: "none", "main" or "writer"
    waiters,     \* threads blocked on the condition variable
    m_pc,        \* position of the main (request) thread
    m_id, m_data,\* the record of the request being handled
    m_fld,       \* fields of the current record already written by the main thread
    m_rc,        \* the result of AOF_append
    m_it,        \* records storage_iterate still has to hand to dump_record_cb
    w_pc,        \* position of writer_thread
    w_fld,       \* fields of ring[tail] already written by the writer
    nAppends, nFaults, nCrashes, nRewrites,
    enq,         \* history: records enqueued since the file at g_path was opened
    wlog,        \* history: ring records handed to aof_write_record since then
    crash_img,   \* history: what the fsynced part of the log held at the crash
    rdb,         \* the file at g_rdb_path
    rdbtmp,      \* the file at g_rdb_path.tmp
    kids,        \* the forked snapshot children
    nSnaps,
    m_ino,       \* the file the FILE of Persistence_compact is open on
    ring_capacity, \* the ring_capacity handed to AOF_init
    peer         \* another worker process appending to the same AOF path

storeHist == << last, fill, ops >>
rdbVars == << rdb, rdbtmp, kids, nSnaps, m_ino >>
fsVars == << aof, tmp >>
ringVars == << ring, cap, head, tail >>
mainVars == << m_pc, m_id, m_data, m_fld, m_rc, m_it >>
writerVars == << w_pc, w_fld >>
countVars == << nAppends, nFaults, nCrashes, nRewrites >>
histVars == << enq, wlog, crash_img >>
engineVars == << rdbVars, ring_capacity, flush_ms, peer, fsVars, fd, mode_always, ringVars, running, lock, waiters,
                 mainVars, writerVars, countVars, histVars >>
vars == << st, storeHist, engineVars >>

mask == cap - 1

\* the ring capacities and flush intervals a worker is configured with
RingCapacities == {2, 4}
FlushSettings == {0, 10}

ZeroCmd == [id |-> 0, sz |-> 0, data |-> NoVal]
NoImg == [k \in StoreKeys |-> Absent]

\* another worker between two requests, having served n of them
PeerIdle == [pc |-> "idle", id |-> 0, data |-> NoVal, fld |-> 0, n |-> 0]

\* the statics of a process that has not run Persistence_init yet
ProcessDown ==
    /\ st = storage_init
    /\ fd = "closed"
    /\ mode_always = FALSE
    /\ ring = << >> /\ cap = 0 /\ head = 0 /\ tail = 0
    /\ running = FALSE
    /\ lock = "none" /\ waiters = {}
    /\ m_pc = "down" /\ m_id = 0 /\ m_data = NoVal /\ m_fld = 0 /\ m_rc = 0
    /\ m_it = << >>
    /\ w_pc = "off" /\ w_fld = 0
    /\ enq = << >> /\ wlog = << >>

Init ==
    /\ ProcessDown
    /\ last = [k \in StoreKeys |-> Absent] /\ fill = 0 /\ ops = 0
    /\ flush_ms \in FlushSettings
    /\ ring_capacity \in IF flush_ms = 0 THEN {2} ELSE RingCapacities
    /\ aof = NoFile /\ tmp = NoFile
    /\ rdb = NoFile /\ rdbtmp = NoFile /\ kids = << >> /\ nSnaps = 0 /\ m_ino = "none"
    /\ peer = PeerIdle
    /\ nAppends = 0 /\ nFaults = 0 /\ nCrashes = 0 /\ nRewrites = 0
    /\ crash_img = NoImg

(***************************************************************************)
(* The store on its own: storage_save / storage_remove from a caller.      *)
(***************************************************************************)
InitStore ==
    /\ Init
    /\ flush_ms = 0

\* storage_save(st, k, v) on a freely chosen key
Save(k, v) ==
    /\ ops < MaxOps
    /\ ops' = ops + 1
    /\ st' = storage_save(st, k, v)
    /\ last' = [last EXCEPT ![k] = v]
    /\ UNCHANGED << fill, engineVars >>

\* storage_save of the next filler key
Fill ==
    /\ fill < MaxFill
    /\ st' = storage_save(st, FillKeys[fill + 1], FillVal)
    /\ last' = [last EXCEPT ![FillKeys[fill + 1]] = FillVal]
    /\ fill' = fill + 1
    /\ UNCHANGED << ops, engineVars >>

\* storage_remove(st, k)
Remove(k) ==
    /\ ops < MaxOps
    /\ ops' = ops + 1
    /\ st' = storage_remove(st, k)
    /\ last' = [last EXCEPT ![k] = Absent]
    /\ UNCHANGED << fill, engineVars >>

NextSaves ==
    \/ \E k \in ActiveKeys, v \in Payloads : Save(k, v)
    \/ Fill

NextStore ==
    \/ \E k \in ActiveKeys, v \in Payloads : Save(k, v)
    \/ Fill
    \/ \E k \in ActiveKeys : Remove(k)

SpecSaves == InitStore /\ [][NextSaves]_vars
SpecStore == InitStore /\ [][NextStore]_vars

(***************************************************************************)
(* System calls.                                                           *)
(***************************************************************************)
\* write(fd, buf, len) on an O_APPEND fd: the possible files afterwards and
\* whether safe_write returns 0.  A failing write leaves a strict prefix of buf.
WriteOutcomes(f, buf, mayFail) ==
    { [f |-> [f EXCEPT !.data = f.data \o buf], ok |-> TRUE] }
    \cup (IF mayFail
          THEN { [f |-> [f EXCEPT !.data = f.data \o SubSeq(buf, 1, k)], ok |-> FALSE]
                 : k \in 0..(Len(buf) - 1) }
          ELSE {})

\* write(fd, buf, len) on the append descriptor: the bytes reach the file at
\* g_path when the descriptor is open on it, they reach the replaced file when a
\* rename has put another file at the path, and the call fails on a closed fd
FdWriteOutcomes(f, d, buf, mayFail) ==
    IF d = "open" THEN WriteOutcomes(f, buf, mayFail)
    ELSE IF d = "stale" THEN { [f |-> f, ok |-> TRUE] }
    ELSE { [f |-> f, ok |-> FALSE] }

\* rename(tmp, g_path) seen from a descriptor: one that is open on the old file
\* stays on the old file
AcrossRename(d) == IF d = "open" THEN "stale" ELSE d

\* a reopen that leaves the descriptor as it was
ReopenedFdKept(d) == d

\* fd = open(g_path, O_APPEND | O_WRONLY | O_CLOEXEC) assigned over the old value
ReopenedFd(d) == "open"

\* fsync(fd)
Fsynced(f) == [f EXCEPT !.synced = Len(f.data)]

\* a mutex that excludes nobody
MutexNeverExcludes(l) == TRUE

\* pthread_mutex_lock(&lock) returns only once no thread holds the mutex
MutexFree(l) == l = "none"

\* pthread_cond_signal: with threads blocked, one of them is unblocked
SignalTo(W) == IF W = {} THEN {W} ELSE { W \ {w} : w \in W }

CanFault == nFaults < MaxFaults

(***************************************************************************)
(* persistence.c Persistence_init and aof_batch.c AOF_init, AOF_load.      *)
(***************************************************************************)
RECURSIVE RoundUpPow2(_, _)
\* cap = 1; while (cap < ring_capacity) cap <<= 1;
RoundUpPow2(c, want) ==
    IF c < want THEN RoundUpPow2(2 * c, want) ELSE c

\* load_rdb(storage)
LoadRdb ==
    /\ m_pc = "down"
    /\ LET r == load_rdb(rdb, st)
       IN  /\ st' = r.st
           /\ m_pc' = IF r.ok THEN "aof_init" ELSE "abort_rdb"
    /\ UNCHANGED << storeHist, rdbVars, ring_capacity, flush_ms, peer, fsVars, fd, mode_always, ringVars, running,
                    lock, waiters, m_id, m_data, m_fld, m_rc, m_it, writerVars,
                    countVars, histVars >>

\* AOF_init(aof_path, ring_capacity, aof_flush_ms)
AofInit ==
    /\ m_pc = "aof_init"
    /\ mode_always' = (flush_ms = 0)
    /\ IF flush_ms # 0
       THEN /\ cap' = RoundUpPow2(1, ring_capacity)
            /\ ring' = [i \in 0..(cap' - 1) |-> ZeroCmd]
       ELSE UNCHANGED << cap, ring >>
    /\ \/ /\ aof' = IF aof.ex THEN aof ELSE EmptyFile
          /\ fd' = "open"
          /\ IF flush_ms # 0
             THEN running' = TRUE /\ w_pc' = "top"
             ELSE UNCHANGED << running, w_pc >>
          /\ m_pc' = "aof_load"
          /\ UNCHANGED nFaults
       \/ /\ CanFault                       \* open fails: exit(1)
          /\ nFaults' = nFaults + 1
          /\ m_pc' = "exit_open"
          /\ UNCHANGED << aof, fd, running, w_pc >>
    /\ UNCHANGED << st, storeHist, rdbVars, ring_capacity, flush_ms, peer, tmp, head, tail, lock, waiters,
                    m_id, m_data, m_fld, m_rc, m_it, w_fld,
                    nAppends, nCrashes, nRewrites, histVars >>

\* AOF_load(storage) at startup
AofLoad ==
    /\ m_pc = "aof_load"
    /\ LET r == AOF_load(aof, st)
       IN  /\ st' = r.st
           /\ m_pc' = IF r.ok THEN "booted" ELSE "abort_load"
    /\ UNCHANGED << storeHist, rdbVars, ring_capacity, flush_ms, peer, fsVars, fd, mode_always, ringVars, running,
                    lock, waiters, m_id, m_data, m_fld, m_rc, m_it, writerVars,
                    countVars, histVars >>

\* Persistence_init returns; the worker starts serving requests
InitDone ==
    /\ m_pc = "booted"
    /\ m_pc' = "idle"
    /\ UNCHANGED << st, storeHist, rdbVars, ring_capacity, flush_ms, peer, fsVars, fd, mode_always, ringVars, running,
                    lock, waiters, m_id, m_data, m_fld, m_rc, m_it, writerVars,
                    countVars, histVars >>

(***************************************************************************)
(* app_routes.c create_user_fast and aof_batch.c AOF_append.               *)
(***************************************************************************)
\* POST /users with a body that parses to (id, data)
HandlerStart(id, data) ==
    /\ m_pc = "idle"
    /\ nAppends < MaxAppends
    /\ nAppends' = nAppends + 1
    /\ m_id' = id /\ m_data' = data /\ m_fld' = 0
    /\ m_pc' = IF mode_always THEN "aw" ELSE "ap"
    /\ UNCHANGED << st, storeHist, rdbVars, ring_capacity, flush_ms, peer, fsVars, fd, mode_always, ringVars, running,
                    lock, waiters, m_rc, m_it, writerVars,
                    nFaults, nCrashes, nRewrites, histVars >>

\* sync-always AOF_append: one safe_write of aof_write_record
AlwaysWrite ==
    /\ m_pc = "aw"
    /\ \E o \in FdWriteOutcomes(aof, fd, RecordFields(m_id, m_data)[m_fld + 1], CanFault) :
          /\ aof' = o.f
          /\ IF o.ok
             THEN /\ IF m_fld = 3
                     THEN m_pc' = "afsync" /\ m_fld' = 0
                     ELSE m_pc' = "aw" /\ m_fld' = m_fld + 1
                  /\ UNCHANGED << m_rc, nFaults >>
             ELSE /\ m_rc' = -1 /\ m_pc' = "ret" /\ m_fld' = 0
                  /\ nFaults' = nFaults + 1
    /\ UNCHANGED << st, storeHist, rdbVars, ring_capacity, flush_ms, peer, tmp, fd, mode_always, ringVars, running,
                    lock, waiters, m_id, m_data, m_it, writerVars,
                    nAppends, nCrashes, nRewrites, histVars >>

\* sync-always AOF_append: fsync(fd); return 0 (the result of fsync is not read)
AlwaysFsync ==
    /\ m_pc = "afsync"
    /\ \/ aof' = Fsynced(aof) /\ UNCHANGED nFaults
       \/ CanFault /\ nFaults' = nFaults + 1 /\ UNCHANGED aof
    /\ m_rc' = 0 /\ m_pc' = "ret"
    /\ UNCHANGED << st, storeHist, rdbVars, ring_capacity, flush_ms, peer, tmp, fd, mode_always, ringVars, running,
                    lock, waiters, m_id, m_data, m_fld, m_it, writerVars,
                    nAppends, nCrashes, nRewrites, histVars >>

\* a full test that never finds the ring full
RingFullNever(h, t) == FALSE

\* nxt = (head + 1) & mask; nxt == tail
RingFull(h, t) == (h + 1) % cap = t

\* batched AOF_append: lock; while (nxt == tail) wait; enqueue; signal; unlock
AppendEnqueue ==
    /\ m_pc = "ap"
    /\ MutexFree(lock)
    /\ IF RingFull(head, tail)
       THEN /\ waiters' = waiters \cup {"main"}
            /\ m_pc' = "ap_wait"
            /\ UNCHANGED << ring, head, m_rc, enq >>
       ELSE /\ ring' = [ring EXCEPT ![head] =
                          [id |-> m_id, sz |-> Len(m_data), data |-> m_data]]
            /\ head' = (head + 1) % cap
            /\ waiters' \in SignalTo(waiters)
            /\ m_rc' = 0 /\ m_pc' = "ret"
            /\ enq' = Append(enq, [id |-> m_id, data |-> m_data])
    /\ UNCHANGED << st, storeHist, rdbVars, ring_capacity, flush_ms, peer, fsVars, fd, mode_always, cap, tail, running,
                    lock, m_id, m_data, m_fld, m_it, writerVars,
                    countVars, wlog, crash_img >>

\* batched AOF_append: pthread_cond_wait returns once the thread is unblocked
AppendWake ==
    /\ m_pc = "ap_wait"
    /\ "main" \notin waiters
    /\ m_pc' = "ap"
    /\ UNCHANGED << st, storeHist, rdbVars, ring_capacity, flush_ms, peer, fsVars, fd, mode_always, ringVars, running,
                    lock, waiters, m_id, m_data, m_fld, m_rc, m_it, writerVars,
                    countVars, histVars >>

\* a handler that saves whatever AOF_append returned
HandlerStoreUnchecked(s, rc, id, data) == storage_save(s, id, data)

\* create_user_fast after AOF_append: return -3, or storage_save
HandlerStore(s, rc, id, data) ==
    IF rc < 0 THEN s ELSE storage_save(s, id, data)

HandlerFinish ==
    /\ m_pc = "ret"
    /\ st' = HandlerStore(st, m_rc, m_id, m_data)
    /\ m_pc' = "idle"
    /\ UNCHANGED << storeHist, rdbVars, ring_capacity, flush_ms, peer, fsVars, fd, mode_always, ringVars, running,
                    lock, waiters, m_id, m_data, m_fld, m_rc, m_it, writerVars,
                    countVars, histVars >>

(***************************************************************************)
(* aof_batch.c writer_thread.                                              *)
(***************************************************************************)
\* a tail that skips a slot
AdvanceTailTwice(t) == (t + 2) % cap

\* tail = (tail + 1) & mask
AdvanceTail(t) == (t + 1) % cap

\* the wait predicate of the writer: head == tail && running
WriterMustWait == head = tail /\ running

\* a drain loop that takes no record
DrainNothing(h, t, more, done) == done

\* while (head != tail) { ... } fsync(fd): what comes next for a drain loop
DrainNext(h, t, more, done) == IF h # t THEN more ELSE done

\* while (running)
WTop ==
    /\ w_pc = "top"
    /\ w_pc' = IF running THEN "lock" ELSE "done"
    /\ UNCHANGED << st, storeHist, rdbVars, ring_capacity, flush_ms, peer, fsVars, fd, mode_always, ringVars, running,
                    lock, waiters, mainVars, w_fld, countVars, histVars >>

\* pthread_mutex_lock, then the first test of the wait predicate
WLock ==
    /\ w_pc = "lock"
    /\ MutexFree(lock)
    /\ lock' = "writer"
    /\ w_pc' = IF WriterMustWait THEN "wait" ELSE DrainNext(head, tail, "wr", "fsync")
    /\ UNCHANGED << st, storeHist, rdbVars, ring_capacity, flush_ms, peer, fsVars, fd, mode_always, ringVars, running,
                    waiters, mainVars, w_fld, countVars, histVars >>

\* pthread_cond_wait: release the mutex and block
WWait ==
    /\ w_pc = "wait"
    /\ lock' = "none"
    /\ waiters' = waiters \cup {"writer"}
    /\ w_pc' = "waiting"
    /\ UNCHANGED << st, storeHist, rdbVars, ring_capacity, flush_ms, peer, fsVars, fd, mode_always, ringVars, running,
                    mainVars, w_fld, countVars, histVars >>

\* pthread_cond_wait returns with the mutex held; the predicate is tested again
WWake ==
    /\ w_pc = "waiting"
    /\ "writer" \notin waiters
    /\ MutexFree(lock)
    /\ lock' = "writer"
    /\ w_pc' = IF WriterMustWait THEN "wait" ELSE DrainNext(head, tail, "wr", "fsync")
    /\ UNCHANGED << st, storeHist, rdbVars, ring_capacity, flush_ms, peer, fsVars, fd, mode_always, ringVars, running,
                    waiters, mainVars, w_fld, countVars, histVars >>

\* one safe_write of aof_write_record(fd, c->id, c->data, c->sz) for c = ring[tail];
\* after the record: free(c->data); tail = (tail + 1) & mask
WWrite ==
    /\ w_pc = "wr"
    /\ LET c == ring[tail]
           t2 == AdvanceTail(tail)
       IN  \E o \in FdWriteOutcomes(aof, fd, RecordFields(c.id, c.data)[w_fld + 1], CanFault) :
             /\ aof' = o.f
             /\ IF o.ok /\ w_fld < 3
                THEN /\ w_fld' = w_fld + 1
                     /\ UNCHANGED << w_pc, tail, wlog, nFaults >>
                ELSE /\ w_fld' = 0
                     /\ tail' = t2
                     /\ wlog' = Append(wlog, [id |-> c.id, data |-> c.data, ok |-> o.ok])
                     /\ w_pc' = DrainNext(head, t2, "wr", "fsync")
                     /\ nFaults' = IF o.ok THEN nFaults ELSE nFaults + 1
    /\ UNCHANGED << st, storeHist, rdbVars, ring_capacity, flush_ms, peer, tmp, fd, mode_always, ring, cap, head, running,
                    lock, waiters, mainVars, nAppends, nCrashes, nRewrites, enq, crash_img >>

\* fsync(fd) after the drain loop
WFsync ==
    /\ w_pc = "fsync"
    /\ \/ aof' = Fsynced(aof) /\ UNCHANGED nFaults
       \/ CanFault /\ nFaults' = nFaults + 1 /\ UNCHANGED aof
    /\ w_pc' = "unlock"
    /\ UNCHANGED << st, storeHist, rdbVars, ring_capacity, flush_ms, peer, tmp, fd, mode_always, ringVars, running,
                    lock, waiters, mainVars, w_fld, nAppends, nCrashes, nRewrites,
                    histVars >>

\* pthread_cond_signal; pthread_mutex_unlock
WUnlock ==
    /\ w_pc = "unlock"
    /\ waiters' \in SignalTo(waiters)
    /\ lock' = "none"
    /\ w_pc' = "tlock"
    /\ UNCHANGED << st, storeHist, rdbVars, ring_capacity, flush_ms, peer, fsVars, fd, mode_always, ringVars, running,
                    mainVars, w_fld, countVars, histVars >>

\* pthread_mutex_lock; pthread_cond_timedwait releases the mutex and blocks
WTimedWait ==
    /\ w_pc = "tlock"
    /\ MutexFree(lock)
    /\ waiters' = waiters \cup {"writer"}
    /\ w_pc' = "twaiting"
    /\ UNCHANGED << st, storeHist, rdbVars, ring_capacity, flush_ms, peer, fsVars, fd, mode_always, ringVars, running,
                    lock, mainVars, w_fld, countVars, histVars >>

\* pthread_cond_timedwait returns (signal or timeout); pthread_mutex_unlock
WTimedWake ==
    /\ w_pc = "twaiting"
    /\ MutexFree(lock)
    /\ waiters' = waiters \ {"writer"}
    /\ w_pc' = "top"
    /\ UNCHANGED << st, storeHist, rdbVars, ring_capacity, flush_ms, peer, fsVars, fd, mode_always, ringVars, running,
                    lock, mainVars, w_fld, countVars, histVars >>

\* a spurious wakeup of a thread blocked in pthread_cond_wait
SpuriousWake ==
    /\ \E w \in waiters : waiters' = waiters \ {w}
    /\ UNCHANGED << st, storeHist, rdbVars, ring_capacity, flush_ms, peer, fsVars, fd, mode_always, ringVars, running,
                    lock, mainVars, writerVars, countVars, histVars >>

Writer ==
    \/ WTop \/ WLock \/ WWait \/ WWake \/ WWrite \/ WFsync \/ WUnlock
    \/ WTimedWait \/ WTimedWake

(***************************************************************************)
(* aof_batch.c AOF_rewrite, called by Persistence_compact.                 *)
(***************************************************************************)
\* POST /admin/compact
CompactStart ==
    /\ m_pc = "idle"
    /\ nRewrites < MaxRewrites
    /\ nRewrites' = nRewrites + 1
    /\ m_pc' = "rc_open"
    /\ UNCHANGED << st, storeHist, rdbVars, ring_capacity, flush_ms, peer, fsVars, fd, mode_always, ringVars, running,
                    lock, waiters, m_id, m_data, m_fld, m_rc, m_it, writerVars,
                    nAppends, nFaults, nCrashes, histVars >>

\* open(tmp, O_CREAT | O_TRUNC | O_WRONLY)
RwOpen ==
    /\ m_pc = "rw_open"
    /\ \/ /\ tmp' = EmptyFile
          /\ m_pc' = "rw_load"
          /\ UNCHANGED nFaults
       \/ /\ CanFault
          /\ nFaults' = nFaults + 1
          /\ m_pc' = "idle"
          /\ UNCHANGED tmp
    /\ UNCHANGED << st, storeHist, rdbVars, ring_capacity, flush_ms, peer, aof, fd, mode_always, ringVars, running,
                    lock, waiters, m_id, m_data, m_fld, m_rc, m_it, writerVars,
                    nAppends, nCrashes, nRewrites, histVars >>

\* the table AOF_rewrite dumps: a replay of the log (always) or the live one
RewriteSource ==
    IF mode_always THEN AOF_load(aof, storage_init) ELSE [ok |-> TRUE, st |-> st]

RwLoad ==
    /\ m_pc = "rw_load"
    /\ LET src == RewriteSource
       IN  IF src.ok
           THEN m_it' = storage_iterate(src.st) /\ m_pc' = "rw_dump"
           ELSE m_it' = << >> /\ m_pc' = "abort_rw"
    /\ UNCHANGED << st, storeHist, rdbVars, ring_capacity, flush_ms, peer, fsVars, fd, mode_always, ringVars, running,
                    lock, waiters, m_id, m_data, m_fld, m_rc, writerVars,
                    countVars, histVars >>

\* dump_record_cb for the next occupied slot (its result is not read), or,
\* after the last one, fsync(fd_tmp); close(fd_tmp)
RwDump ==
    /\ m_pc = "rw_dump"
    /\ IF m_it # << >>
       THEN \E o \in WriteOutcomes(tmp, RecordBytes(Head(m_it).id, Head(m_it).data), CanFault) :
              /\ tmp' = o.f
              /\ nFaults' = IF o.ok THEN nFaults ELSE nFaults + 1
              /\ m_it' = Tail(m_it)
              /\ UNCHANGED m_pc
       ELSE /\ tmp' = Fsynced(tmp)
            /\ m_pc' = IF mode_always THEN "rw_close" ELSE "rw_lock"
            /\ UNCHANGED << m_it, nFaults >>
    /\ UNCHANGED << st, storeHist, rdbVars, ring_capacity, flush_ms, peer, aof, fd, mode_always, ringVars, running,
                    lock, waiters, m_id, m_data, m_fld, m_rc, writerVars,
                    nAppends, nCrashes, nRewrites, histVars >>

\* pthread_mutex_lock(&lock) in batched mode
RwLock ==
    /\ m_pc = "rw_lock"
    /\ MutexFree(lock)
    /\ lock' = "main"
    /\ m_pc' = DrainNext(head, tail, "rw_wr", "rw_fsync")
    /\ UNCHANGED << st, storeHist, rdbVars, ring_capacity, flush_ms, peer, fsVars, fd, mode_always, ringVars, running,
                    waiters, m_id, m_data, m_fld, m_rc, m_it, writerVars,
                    countVars, histVars >>

\* the flush loop of AOF_rewrite: one safe_write for ring[tail]
RwWrite ==
    /\ m_pc = "rw_wr"
    /\ LET c == ring[tail]
           t2 == AdvanceTail(tail)
       IN  \E o \in FdWriteOutcomes(aof, fd, RecordFields(c.id, c.data)[m_fld + 1], CanFault) :
             /\ aof' = o.f
             /\ IF o.ok /\ m_fld < 3
                THEN /\ m_fld' = m_fld + 1
                     /\ UNCHANGED << m_pc, tail, wlog, nFaults >>
                ELSE /\ m_fld' = 0
                     /\ tail' = t2
                     /\ wlog' = Append(wlog, [id |-> c.id, data |-> c.data, ok |-> o.ok])
                     /\ m_pc' = DrainNext(head, t2, "rw_wr", "rw_fsync")
                     /\ nFaults' = IF o.ok THEN nFaults ELSE nFaults + 1
    /\ UNCHANGED << st, storeHist, rdbVars, ring_capacity, flush_ms, peer, tmp, fd, mode_always, ring, cap, head, running,
                    lock, waiters, m_id, m_data, m_rc, m_it, writerVars,
                    nAppends, nCrashes, nRewrites, enq, crash_img >>

\* fsync(fd) after the flush loop
RwFsync ==
    /\ m_pc = "rw_fsync"
    /\ \/ aof' = Fsynced(aof) /\ UNCHANGED nFaults
       \/ CanFault /\ nFaults' = nFaults + 1 /\ UNCHANGED aof
    /\ m_pc' = "rw_close"
    /\ UNCHANGED << st, storeHist, rdbVars, ring_capacity, flush_ms, peer, tmp, fd, mode_always, ringVars, running,
                    lock, waiters, m_id, m_data, m_fld, m_rc, m_it, writerVars,
                    nAppends, nCrashes, nRewrites, histVars >>

\* close(fd)
RwClose ==
    /\ m_pc = "rw_close"
    /\ fd' = "closed"
    /\ m_pc' = "rw_rename"
    /\ UNCHANGED << st, storeHist, rdbVars, ring_capacity, flush_ms, peer, fsVars, mode_always, ringVars, running,
                    lock, waiters, m_id, m_data, m_fld, m_rc, m_it, writerVars,
                    countVars, histVars >>

\* rename(tmp, g_path); a failure is only reported with perror
RwRename ==
    /\ m_pc = "rw_rename"
    /\ \/ /\ aof' = tmp /\ tmp' = NoFile
          /\ fd' = AcrossRename(fd)
          /\ enq' = SubSeq(enq, Len(wlog) + 1, Len(enq)) /\ wlog' = << >>
          /\ UNCHANGED nFaults
       \/ /\ CanFault
          /\ nFaults' = nFaults + 1
          /\ UNCHANGED << aof, tmp, fd, enq, wlog >>
    /\ m_pc' = "rw_reopen"
    /\ UNCHANGED << st, storeHist, rdbVars, ring_capacity, flush_ms, peer, mode_always, ringVars, running,
                    lock, waiters, m_id, m_data, m_fld, m_rc, m_it, writerVars,
                    nAppends, nCrashes, nRewrites, crash_img >>

\* fd = open(g_path, O_APPEND | O_WRONLY); on failure exit(1)
RwReopen ==
    /\ m_pc = "rw_reopen"
    /\ \/ /\ aof.ex
          /\ fd' = ReopenedFd(fd)
          /\ m_pc' = IF mode_always THEN "idle" ELSE "rw_unlock"
          /\ UNCHANGED nFaults
       \/ /\ CanFault
          /\ nFaults' = nFaults + 1
          /\ m_pc' = "exit_reopen"
          /\ UNCHANGED fd
    /\ UNCHANGED << st, storeHist, rdbVars, ring_capacity, flush_ms, peer, fsVars, mode_always, ringVars, running,
                    lock, waiters, m_id, m_data, m_fld, m_rc, m_it, writerVars,
                    nAppends, nCrashes, nRewrites, histVars >>

\* pthread_mutex_unlock(&lock) in batched mode
RwUnlock ==
    /\ m_pc = "rw_unlock"
    /\ lock' = "none"
    /\ m_pc' = "idle"
    /\ UNCHANGED << st, storeHist, rdbVars, ring_capacity, flush_ms, peer, fsVars, fd, mode_always, ringVars, running,
                    waiters, m_id, m_data, m_fld, m_rc, m_it, writerVars,
                    countVars, histVars >>

Rewrite ==
    \/ CompactStart \/ RwOpen \/ RwLoad \/ RwDump \/ RwLock \/ RwWrite \/ RwFsync
    \/ RwClose \/ RwRename \/ RwReopen \/ RwUnlock

(***************************************************************************)
(* aof_batch.c AOF_shutdown, called by Persistence_shutdown.               *)
(***************************************************************************)
\* sync-always: close(fd).  batched: running = 0
ShutdownStart ==
    /\ m_pc = "idle"
    /\ IF mode_always
       THEN fd' = "closed" /\ m_pc' = "stopped" /\ UNCHANGED running
       ELSE running' = FALSE /\ m_pc' = "sd_signal" /\ UNCHANGED fd
    /\ UNCHANGED << st, storeHist, rdbVars, ring_capacity, flush_ms, peer, fsVars, mode_always, ringVars,
                    lock, waiters, m_id, m_data, m_fld, m_rc, m_it, writerVars,
                    countVars, histVars >>

\* pthread_cond_signal(&cond)
SdSignal ==
    /\ m_pc = "sd_signal"
    /\ waiters' \in SignalTo(waiters)
    /\ m_pc' = "sd_join"
    /\ UNCHANGED << st, storeHist, rdbVars, ring_capacity, flush_ms, peer, fsVars, fd, mode_always, ringVars, running,
                    lock, m_id, m_data, m_fld, m_rc, m_it, writerVars,
                    countVars, histVars >>

\* pthread_join(writer) returns; destroy the mutex, free(ring), close(fd)
SdJoin ==
    /\ m_pc = "sd_join"
    /\ w_pc = "done"
    /\ fd' = "closed"
    /\ m_pc' = "stopped"
    /\ UNCHANGED << st, storeHist, rdbVars, ring_capacity, flush_ms, peer, fsVars, mode_always, ringVars, running,
                    lock, waiters, m_id, m_data, m_fld, m_rc, m_it, writerVars,
                    countVars, histVars >>

Shutdown == ShutdownStart \/ SdSignal \/ SdJoin

(***************************************************************************)
(* The process dies (kill -9, power loss) and the worker is started again. *)
(***************************************************************************)
\* what survives of a file: all of it, or only what was fsynced
Survives(f) == { f, [f EXCEPT !.data = SubSeq(f.data, 1, f.synced)] }

Crash ==
    /\ m_pc # "down"
    /\ nCrashes < MaxCrashes
    /\ nCrashes' = nCrashes + 1
    /\ aof' \in Survives(aof)
    /\ tmp' \in Survives(tmp)
    /\ crash_img' = StoreMap(LoadFrom(SubSeq(aof.data, 1, aof.synced), 0, storage_init).st)
    /\ st' = storage_init
    /\ fd' = "closed"
    /\ mode_always' = FALSE
    /\ ring' = << >> /\ cap' = 0 /\ head' = 0 /\ tail' = 0
    /\ running' = FALSE
    /\ lock' = "none" /\ waiters' = {}
    /\ m_pc' = "down" /\ m_id' = 0 /\ m_data' = NoVal /\ m_fld' = 0 /\ m_rc' = 0
    /\ m_it' = << >>
    /\ w_pc' = "off" /\ w_fld' = 0
    /\ enq' = << >> /\ wlog' = << >>
    /\ rdb' \in Survives(rdb)
    /\ rdbtmp' \in Survives(rdbtmp)
    /\ kids' = << >> /\ m_ino' = "none"
    /\ UNCHANGED << storeHist, nSnaps, ring_capacity, flush_ms, peer, nAppends, nFaults, nRewrites >>

(***************************************************************************)
(* persistence.c snapshot_cb (the forked child) and the snapshot part of   *)
(* Persistence_compact.  A FILE is open on an inode, named here by where   *)
(* the inode is now: "tmp" (at g_rdb_path.tmp), "rdb" (at g_rdb_path) or   *)
(* "gone" (unlinked).                                                      *)
(***************************************************************************)
\* fopen(tmp, "wb"): the file at the tmp path, created or truncated
OpenedWb == EmptyFile

\* rename(tmp, g_rdb_path) moves the inode of every FILE open on it
Renamed(ino) == IF ino = "tmp" THEN "rdb" ELSE IF ino = "rdb" THEN "gone" ELSE ino

RenamedKids == [i \in DOMAIN kids |-> [kids[i] EXCEPT !.ino = Renamed(kids[i].ino)]]

\* fflush + fsync of the buffered snapshot img through a FILE open on ino,
\* when n bytes of it reach the file
FlushInto(f, img, n) ==
    [f EXCEPT !.data = Overlay(f.data, SubSeq(img, 1, n)),
              !.synced = Len(Overlay(f.data, SubSeq(img, 1, n)))]

FlushLens(img) == {Len(img)} \cup (IF CanFault THEN 0..(Len(img) - 1) ELSE {})

\* the uv timer fires snapshot_cb: fork(); the parent does waitpid(WNOHANG)
SnapshotFork ==
    /\ m_pc = "idle"
    /\ nSnaps' = nSnaps + 1
    /\ kids' = Append(kids, [pc |-> "open", img |-> RdbImage(st), ino |-> "none"])
    /\ UNCHANGED << st, storeHist, rdb, rdbtmp, m_ino, ring_capacity, flush_ms, peer, fsVars, fd,
                    mode_always, ringVars, running, lock, waiters, mainVars, writerVars,
                    countVars, histVars >>

SnapshotTick == nSnaps < MaxSnaps /\ SnapshotFork

\* child: fopen(tmp, "wb"); if (!out) _exit(1)
KidOpen(i) ==
    /\ kids[i].pc = "open"
    /\ \/ /\ rdbtmp' = OpenedWb
          /\ kids' = [kids EXCEPT ![i].pc = "write", ![i].ino = "tmp"]
          /\ UNCHANGED nFaults
       \/ /\ CanFault
          /\ nFaults' = nFaults + 1
          /\ kids' = [kids EXCEPT ![i].pc = "exit"]
          /\ UNCHANGED rdbtmp
    /\ UNCHANGED << st, storeHist, rdb, nSnaps, m_ino, ring_capacity, flush_ms, peer, fsVars, fd,
                    mode_always, ringVars, running, lock, waiters, mainVars, writerVars,
                    nAppends, nCrashes, nRewrites, histVars >>

\* child: storage_iterate_crc; fwrite footer; fflush; fsync; fclose
KidWrite(i) ==
    /\ kids[i].pc = "write"
    /\ \E n \in FlushLens(kids[i].img) :
          /\ nFaults' = IF n = Len(kids[i].img) THEN nFaults ELSE nFaults + 1
          /\ rdbtmp' = IF kids[i].ino = "tmp"
                       THEN FlushInto(rdbtmp, kids[i].img, n) ELSE rdbtmp
          /\ rdb' = IF kids[i].ino = "rdb"
                    THEN FlushInto(rdb, kids[i].img, n) ELSE rdb
    /\ kids' = [kids EXCEPT ![i].pc = "rename"]
    /\ UNCHANGED << st, storeHist, nSnaps, m_ino, ring_capacity, flush_ms, peer, fsVars, fd,
                    mode_always, ringVars, running, lock, waiters, mainVars, writerVars,
                    nAppends, nCrashes, nRewrites, histVars >>

\* child: rename(tmp, g_rdb_path); _exit(0)
KidRename(i) ==
    /\ kids[i].pc = "rename"
    /\ IF rdbtmp.ex
       THEN /\ rdb' = rdbtmp /\ rdbtmp' = NoFile
            /\ kids' = [RenamedKids EXCEPT ![i].pc = "exit"]
            /\ m_ino' = Renamed(m_ino)
       ELSE /\ kids' = [kids EXCEPT ![i].pc = "exit"]
            /\ UNCHANGED << rdb, rdbtmp, m_ino >>
    /\ UNCHANGED << st, storeHist, nSnaps, ring_capacity, flush_ms, peer, fsVars, fd,
                    mode_always, ringVars, running, lock, waiters, mainVars, writerVars,
                    countVars, histVars >>

Kid == \E i \in DOMAIN kids : KidOpen(i) \/ KidWrite(i) \/ KidRename(i)

\* Persistence_compact: FILE *out = fopen(tmp_rdb, "wb"); if (out) ...
RcOpen ==
    /\ m_pc = "rc_open"
    /\ \/ /\ rdbtmp' = OpenedWb
          /\ m_ino' = "tmp"
          /\ m_pc' = "rc_write"
          /\ UNCHANGED nFaults
       \/ /\ CanFault
          /\ nFaults' = nFaults + 1
          /\ m_pc' = "rw_open"
          /\ UNCHANGED << rdbtmp, m_ino >>
    /\ UNCHANGED << st, storeHist, rdb, kids, nSnaps, ring_capacity, flush_ms, peer, fsVars, fd,
                    mode_always, ringVars, running, lock, waiters,
                    m_id, m_data, m_fld, m_rc, m_it, writerVars,
                    nAppends, nCrashes, nRewrites, histVars >>

\* Persistence_compact: storage_iterate_crc; fwrite footer; fflush; fsync; fclose
RcWrite ==
    /\ m_pc = "rc_write"
    /\ \E n \in FlushLens(RdbImage(st)) :
          /\ nFaults' = IF n = Len(RdbImage(st)) THEN nFaults ELSE nFaults + 1
          /\ rdbtmp' = IF m_ino = "tmp" THEN FlushInto(rdbtmp, RdbImage(st), n) ELSE rdbtmp
          /\ rdb' = IF m_ino = "rdb" THEN FlushInto(rdb, RdbImage(st), n) ELSE rdb
    /\ m_pc' = "rc_rename"
    /\ UNCHANGED << st, storeHist, kids, nSnaps, m_ino, ring_capacity, flush_ms, peer, fsVars, fd,
                    mode_always, ringVars, running, lock, waiters,
                    m_id, m_data, m_fld, m_rc, m_it, writerVars,
                    nAppends, nCrashes, nRewrites, histVars >>

\* Persistence_compact: rename(tmp_rdb, g_rdb_path), then AOF_rewrite
RcRename ==
    /\ m_pc = "rc_rename"
    /\ IF rdbtmp.ex
       THEN /\ rdb' = rdbtmp /\ rdbtmp' = NoFile
            /\ kids' = RenamedKids
       ELSE UNCHANGED << rdb, rdbtmp, kids >>
    /\ m_ino' = "none"
    /\ m_pc' = "rw_open"
    /\ UNCHANGED << st, storeHist, nSnaps, ring_capacity, flush_ms, peer, fsVars, fd,
                    mode_always, ringVars, running, lock, waiters,
                    m_id, m_data, m_fld, m_rc, m_it, writerVars,
                    countVars, histVars >>

RdbCompact == RcOpen \/ RcWrite \/ RcRename

Boot == LoadRdb \/ AofInit \/ AofLoad \/ InitDone

\* the requests of a worker in sync-always mode (--aof always)
NextAlways ==
    \/ Boot
    \/ \E id \in Ids, data \in Payloads : HandlerStart(id, data)
    \/ AlwaysWrite \/ AlwaysFsync \/ HandlerFinish
    \/ CompactStart \/ RdbCompact
    \/ RwOpen \/ RwLoad \/ RwDump \/ RwClose \/ RwRename \/ RwReopen
    \/ ShutdownStart
    \/ Crash

\* the threads of a worker in batched mode (the default, 10 ms)
NextBatch ==
    \/ Boot
    \/ \E id \in Ids, data \in Payloads : HandlerStart(id, data)
    \/ AppendEnqueue \/ AppendWake \/ HandlerFinish
    \/ Writer
    \/ SpuriousWake
    \/ RdbCompact
    \/ Rewrite
    \/ Shutdown

\* a sync-always worker with its snapshot timer, killed and started again
NextRecovery ==
    \/ Boot
    \/ \E id \in Ids, data \in Payloads : HandlerStart(id, data)
    \/ AlwaysWrite \/ AlwaysFsync \/ HandlerFinish
    \/ SnapshotTick \/ Kid
    \/ Crash

Next == NextAlways \/ NextBatch \/ NextRecovery

\* a worker started with --aof always (g_aof_flush_ms = 0)
InitAlways ==
    /\ Init
    /\ flush_ms = 0

\* a worker started with the default flush interval
InitBatch ==
    /\ Init
    /\ flush_ms # 0

SpecAlways == InitAlways /\ [][NextAlways]_vars
SpecBatch == InitBatch /\ [][NextBatch]_vars
SpecRecovery == InitAlways /\ [][NextRecovery]_vars
Spec == Init /\ [][Next]_vars

\* a worker in batched mode that is never compacted or shut down, with its
\* threads scheduled fairly (the timed wait of the writer always times out)
NextLive ==
    \/ Boot
    \/ \E id \in Ids, data \in Payloads : HandlerStart(id, data)
    \/ AppendEnqueue \/ AppendWake \/ HandlerFinish
    \/ Writer
    \/ SpuriousWake

MainStep == Boot \/ AppendEnqueue \/ AppendWake \/ HandlerFinish

SpecBatchLive ==
    /\ InitBatch
    /\ [][NextLive]_vars
    /\ WF_vars(Writer)
    /\ WF_vars(MainStep)

(***************************************************************************)
(* Properties.                                                             *)
(***************************************************************************)
IsSuffix(x, y) == Len(x) <= Len(y) /\ SubSeq(y, Len(y) - Len(x) + 1, Len(y)) = x

\* the last payload of every key in a log of complete records
RECURSIVE AofLast(_, _, _)
AofLast(data, pos, m) ==
    IF Len(data) - pos < 12 THEN m
    ELSE LET size == data[pos + 5] + 256 * data[pos + 6]
         IN  AofLast(data, pos + 12 + size,
                     [m EXCEPT ![IntOf(SubSeq(data, pos + 1, pos + 4))] =
                                   SubSeq(data, pos + 9, pos + 8 + size)])

\* the number of records in a log of complete records
RECURSIVE AofCount(_, _)
AofCount(data, pos) ==
    IF Len(data) - pos < 12 THEN 0
    ELSE 1 + AofCount(data, pos + 12 + data[pos + 5] + 256 * data[pos + 6])

\* the last payload of every key in a snapshot (records, then a 4-byte footer)
RECURSIVE RdbLast(_, _, _)
RdbLast(data, pos, m) ==
    IF Len(data) - 4 - pos < 12 THEN m
    ELSE LET size == data[pos + 5] + 256 * data[pos + 6]
         IN  RdbLast(data, pos + 12 + size,
                     [m EXCEPT ![IntOf(SubSeq(data, pos + 1, pos + 4))] =
                                   SubSeq(data, pos + 13, pos + 12 + size)])

\* the bytes of the records of w, in order
RECURSIVE Flatten(_)
Flatten(w) ==
    IF w = << >> THEN << >>
    ELSE RecordBytes(Head(w).id, Head(w).data) \o Flatten(Tail(w))

\* the first n fields of the record in ring slot t
RECURSIVE FieldsWritten(_, _)
FieldsWritten(t, n) ==
    IF n = 0 THEN << >>
    ELSE FieldsWritten(t, n - 1) \o RecordFields(ring[t].id, ring[t].data)[n]

\* the bytes of ring[tail] a drain loop has written so far
Partial ==
    IF w_pc = "wr" THEN FieldsWritten(tail, w_fld)
    ELSE IF m_pc = "rw_wr" THEN FieldsWritten(tail, m_fld)
    ELSE << >>

\* C1: in the write handler the store changes only by storage_save of the
\* record whose AOF_append returned success, that record then being the end
\* of the log; when AOF_append returned failure the store is left unchanged.
C1_AofFirst ==
    [][ /\ (m_pc = "ret" /\ m_rc < 0 /\ m_pc' = "idle") => st' = st
        /\ (m_pc = "ret" /\ m_rc >= 0 /\ m_pc' = "idle") =>
              /\ st' = storage_save(st, m_id, m_data)
              /\ IsSuffix(RecordBytes(m_id, m_data), aof.data)
        /\ (st' # st) => \/ m_pc = "ret" /\ m_rc >= 0
                         \/ m_pc \in {"down", "aof_load"}
                         \/ m_pc' = "down" ]_vars

\* a first request stored, a second one refused after its append failed
C1_Witness ==
    /\ m_pc = "idle" /\ m_rc < 0
    /\ nAppends = 2 /\ nCrashes = 0
    /\ st.size = 1

\* C2: after a crash at any point, re-initialisation completes and the
\* recovered store holds exactly the appends whose fsync had completed.
C2_ExactRecovery ==
    (nCrashes >= 1 /\ nFaults = 0 /\ nRewrites = 0) =>
        /\ m_pc # "abort_load"
        /\ m_pc = "booted" => StoreMap(st) = crash_img

\* C3: in sync-always mode, a kill right after AOF_append returned success,
\* followed by re-initialisation, recovers the record of that append.
C3_SyncAlwaysDurable ==
    [][ (mode_always /\ m_pc = "ret" /\ m_rc >= 0 /\ m_pc' = "down"
            /\ aof' = aof /\ rdb' = rdb) =>
          LET r == Persistence_init(rdb', aof')
          IN  r.ok /\ StoreMap(r.st)[m_id] = m_data ]_vars

\* C4: after Persistence_init the value of every key is the payload of its
\* last AOF record if the AOF has one, otherwise the payload of its RDB
\* record, and a key in neither file is absent.
C4_RecoveryLayering ==
    m_pc = "booted" =>
        LET a == AofLast(aof.data, 0, NoImg)
            r == RdbLast(rdb.data, 0, NoImg)
        IN  \A k \in StoreKeys :
               StoreMap(st)[k] = IF a[k] # Absent THEN a[k] ELSE r[k]

\* a restart that finds a key in the snapshot and, with a newer value, in the log
C4_Witness ==
    /\ m_pc = "booted"
    /\ \E k \in StoreKeys :
          /\ AofLast(aof.data, 0, NoImg)[k] # Absent
          /\ RdbLast(rdb.data, 0, NoImg)[k] # Absent
          /\ AofLast(aof.data, 0, NoImg)[k] # RdbLast(rdb.data, 0, NoImg)[k]
          /\ StoreMap(st)[k] = AofLast(aof.data, 0, NoImg)[k]

\* C5: after any sequence of saves, a get of a saved key with a buffer of at
\* least the length of its last value hits and returns that last value.
C5_SaveThenGet ==
    \A k \in StoreKeys :
        last[k] # Absent =>
            \A extra \in 0..1 :
                storage_get(st, k, Len(last[k]) + extra) = [ret |-> 1, out |-> last[k]]

\* a resized table in which some key was overwritten and some active key
\* sits away from its home slot
C5_Witness ==
    /\ st.capacity = 2 * InitCapacity
    /\ ops > Cardinality(ActiveKeys)
    /\ \E i \in 0..(st.capacity - 1) :
          /\ st.flags[i] = BUCKET_OCCUPIED
          /\ st.keys[i] \in ActiveKeys
          /\ HashAnd(Hash(st.keys[i]), st.capacity) # i

\* C6: after any interleaving of saves and removes, size equals the number
\* of keys for which storage_get reports a hit.
C6_SizeIsLiveCount ==
    st.size = Cardinality({k \in StoreKeys : storage_get(st, k, BigBuf).ret = 1})

\* C7: in batched mode the records are handed to the log in exactly the order
\* in which AOF_append enqueued them, by the writer thread and by AOF_rewrite
\* alike, and with every write succeeding the log ends with exactly them.
C7_LogOrder ==
    /\ Len(wlog) <= Len(enq)
    /\ \A i \in 1..Len(wlog) : wlog[i].id = enq[i].id /\ wlog[i].data = enq[i].data
    /\ (nFaults = 0 /\ ~mode_always /\ aof.ex) =>
           IsSuffix(Flatten(wlog) \o Partial, aof.data)

\* two different records written in the order they were enqueued
C7_Witness ==
    /\ Len(wlog) = 2
    /\ wlog[1].ok /\ wlog[2].ok
    /\ wlog[1].id # wlog[2].id
    /\ nFaults = 0

\* C8: in batched mode, when AOF_shutdown has returned, every record whose
\* AOF_append returned success has been written to the log.
C8_ShutdownFlushes ==
    (m_pc = "stopped" /\ ~mode_always /\ nFaults = 0) => Len(wlog) = Len(enq)

\* C9: with the writer thread running and no shutdown, every record enqueued
\* by AOF_append is eventually written to the log and covered by an fsync.
C9_EventuallyDurable ==
    \A n \in 1..MaxAppends :
        (Len(enq) >= n) ~>
            (Len(wlog) >= n /\ wlog[n].ok /\ aof.synced = Len(aof.data))

\* C10: in batched mode, once AOF_rewrite has replaced and reopened the log,
\* a replay of the file at the AOF path into a fresh store yields exactly the
\* pairs of the live store, from exactly one record per live key.
C10_CompactionEquivalence ==
    m_pc = "rw_unlock" =>
        LET r == AOF_load(aof, storage_init)
        IN  /\ r.ok
            /\ StoreMap(r.st) = StoreMap(st)
            /\ AofCount(aof.data, 0) = st.size

\* the positions of the main thread inside AOF_rewrite
RewritePcs ==
    {"rw_open", "rw_load", "rw_dump", "rw_lock", "rw_wr", "rw_fsync",
     "rw_close", "rw_rename", "rw_reopen", "rw_unlock"}

\* C11: at every step of AOF_rewrite, whatever a crash at that point leaves at
\* the AOF path is a complete log (it replays without corruption), and after
\* the rename it is the complete new log (it replays to the dumped store).
C11_RewriteCrashSafe ==
    (m_pc \in RewritePcs /\ nFaults = 0 /\ w_fld = 0) =>
        \A f \in Survives(aof) :
            LET r == AOF_load(f, storage_init)
            IN  /\ r.ok
                /\ (~mode_always /\ m_pc \in {"rw_reopen", "rw_unlock"}) =>
                       StoreMap(r.st) = StoreMap(st)

\* the first defect met when the records of a log are taken one after the
\* other by their framing (id, size, payload of size bytes, crc): "short" when
\* a record ends before its crc is complete though its id field is whole,
\* "crc" when the stored crc is not the crc of id, size and payload, "none"
\* when every record is whole and checks
RECURSIVE AofDefect(_, _)
AofDefect(data, pos) ==
    LET rem == Len(data) - pos
        idb == SubSeq(data, pos + 1, pos + 4)
        szb == SubSeq(data, pos + 5, pos + 8)
        size == szb[1] + 256 * szb[2]
        buf == SubSeq(data, pos + 9, pos + 8 + size)
    IN
    IF rem < 4 THEN "none"
    ELSE IF rem < 8 THEN "short"
    ELSE IF szb[3] # 0 \/ szb[4] # 0 \/ rem < 12 + size THEN "short"
    ELSE IF SubSeq(data, pos + 9 + size, pos + 12 + size)
              # crc32c(crc32c(crc32c(Zero32, idb), szb), buf) THEN "crc"
    ELSE AofDefect(data, pos + 12 + size)

\* C12: whenever some record of the log has a crc that does not match its id,
\* size and payload, or is cut short after its id field, AOF_load (at startup,
\* and inside a sync-always rewrite) does not return: the process exits.
C12_AofCorruptAborts ==
    [][ /\ (m_pc = "aof_load" /\ AofDefect(aof.data, 0) # "none" /\ m_pc' # "down")
              => m_pc' = "abort_load"
        /\ (m_pc = "rw_load" /\ mode_always /\ AofDefect(aof.data, 0) # "none"
              /\ m_pc' # "down") => m_pc' = "abort_rw" ]_vars

\* startup has aborted on a log whose first defect is a crc mismatch
C12_Witness ==
    m_pc = "abort_load" /\ AofDefect(aof.data, 0) = "crc"

(***************************************************************************)
(* Damage to the snapshot file while the worker is down (rdb_corrupt.c     *)
(* flips one byte with b ^= 0xFF).                                         *)
(***************************************************************************)
\* the values xor-ed into a byte: every single bit, the two low bits, all bits
FlipMasks == {1, 2, 3, 4, 8, 16, 32, 64, 128, 255}

\* byte i of the file at g_rdb_path is flipped
RdbFlip(i, k) ==
    /\ m_pc = "down"
    /\ rdb.ex /\ i \in 1..Len(rdb.data)
    /\ CanFault
    /\ nFaults' = nFaults + 1
    /\ rdb' = [rdb EXCEPT !.data[i] = XorByte(@, k)]
    /\ UNCHANGED << st, storeHist, rdbtmp, kids, nSnaps, m_ino, ring_capacity, flush_ms, peer, fsVars, fd,
                    mode_always, ringVars, running, lock, waiters, mainVars, writerVars,
                    nAppends, nCrashes, nRewrites, histVars >>

RdbDamage == \E i \in 1..Len(rdb.data), k \in FlipMasks : RdbFlip(i, k)

\* a sync-always worker whose snapshot file can be damaged between two runs
NextCorrupt ==
    \/ NextAlways
    \/ RdbDamage

SpecCorrupt == InitAlways /\ [][NextCorrupt]_vars

\* the first defect of a snapshot taken by its framing (records of id, 8-byte
\* size, payload; then a 4-byte footer): "short" when a record cannot be read
\* in full, "crc" when the footer is not the crc of the bytes of the records
\* read, "none" otherwise
RECURSIVE RdbDefect(_, _)
RdbDefect(data, pos) ==
    LET fsz == Len(data)
        szb == SubSeq(data, pos + 5, pos + 12)
        sz  == szb[1] + 256 * szb[2]
    IN
    IF pos >= fsz - 4
    THEN IF SubSeq(data, fsz - 3, fsz) = crc32c(Zero32, SubSeq(data, 1, pos))
         THEN "none" ELSE "crc"
    ELSE IF fsz - pos < 12 THEN "short"
    ELSE IF (\E i \in 3..8 : szb[i] # 0) \/ fsz - pos - 12 < sz THEN "short"
    ELSE IF sz = 0 THEN "short"
    ELSE RdbDefect(data, pos + 12 + sz)

\* a file that is whole records followed by the crc of all their bytes
ValidSnapshot(data) == Len(data) >= 4 /\ RdbDefect(data, 0) = "none"

\* C13: load_rdb exits whenever the footer differs from the crc of the records
\* read or a record cannot be read in full, and every flip of a single byte
\* of a valid snapshot produces a file on which it exits.
C13_RdbCorruptAborts ==
    [][ /\ (m_pc = "down" /\ m_pc' # "down" /\ rdb.ex /\ Len(rdb.data) >= 4
               /\ RdbDefect(rdb.data, 0) # "none") => m_pc' = "abort_rdb"
        /\ (m_pc = "down" /\ rdb' # rdb /\ rdb.ex /\ ValidSnapshot(rdb.data)) =>
               /\ ~load_rdb(rdb', storage_init).ok
               /\ RdbDefect(rdb'.data, 0) # "none" ]_vars

\* startup has aborted on a snapshot that is one flipped byte away from a
\* valid snapshot holding at least one record
C13_Witness ==
    /\ m_pc = "abort_rdb"
    /\ Len(rdb.data) > 4
    /\ \E i \in 1..Len(rdb.data), k \in FlipMasks :
          ValidSnapshot([rdb.data EXCEPT ![i] = XorByte(@, k)])

(***************************************************************************)
(* The store under saves that include a value of length 0                 *)
(* (storage_save(st, id, data, 0): malloc(0), memcpy of 0 bytes).          *)
(***************************************************************************)
EmptyPayload == << >>

NextDump ==
    \/ NextSaves
    \/ \E k \in ActiveKeys : Save(k, EmptyPayload)

SpecDump == InitStore /\ [][NextDump]_vars

\* the file a snapshot writer leaves for table s: the records, then the footer
SnapshotOf(s) == [ex |-> TRUE, data |-> RdbImage(s), synced |-> Len(RdbImage(s))]

\* C14: the snapshot of a store, loaded into a fresh store by load_rdb, loads
\* without an abort and gives for every key the get result of the dumped store.
C14_SnapshotRoundTrip ==
    LET r == load_rdb(SnapshotOf(st), storage_init)
    IN  /\ r.ok
        /\ \A k \in StoreKeys : storage_get(r.st, k, BigBuf) = storage_get(st, k, BigBuf)

(***************************************************************************)
(* Replay: a worker started on a log left by an earlier run, and a second  *)
(* call of AOF_load on the same log into the same store.                   *)
(***************************************************************************)
\* the longest log a worker is started on
MaxLogLen == 3

\* keys 1 and 53 have home slot 0 and key 2 has home slot 1 at capacity 16, so
\* that a replay of 1, 2, 53 displaces an entry (Robin-Hood swap)
ReplayKeys == Ids \cup {2}

RECURSIVE LogsUpTo(_)
LogsUpTo(n) ==
    IF n = 0 THEN { << >> }
    ELSE LET s == LogsUpTo(n - 1)
         IN  s \cup { Append(x, [id |-> i, data |-> p]) : x \in s, i \in ReplayKeys, p \in Payloads }

\* the file holding the records of w, all of it durable
LogFile(w) == [ex |-> TRUE, data |-> Flatten(w), synced |-> Len(Flatten(w))]

InitReplay ==
    /\ ProcessDown
    /\ last = [k \in StoreKeys |-> Absent] /\ fill = 0 /\ ops = 0
    /\ flush_ms = 0
    /\ ring_capacity = 2
    /\ aof \in { LogFile(w) : w \in LogsUpTo(MaxLogLen) }
    /\ tmp = NoFile
    /\ rdb = NoFile /\ rdbtmp = NoFile /\ kids = << >> /\ nSnaps = 0 /\ m_ino = "none"
    /\ peer = PeerIdle
    /\ nAppends = 0 /\ nFaults = 0 /\ nCrashes = 0 /\ nRewrites = 0
    /\ crash_img = NoImg

\* AOF_load(storage) called once more after the replay at startup
AofReload ==
    /\ m_pc = "booted"
    /\ LET r == AOF_load(aof, st)
       IN  /\ st' = r.st
           /\ m_pc' = IF r.ok THEN "reloaded" ELSE "abort_load"
    /\ UNCHANGED << storeHist, rdbVars, ring_capacity, flush_ms, peer, fsVars, fd, mode_always, ringVars, running,
                    lock, waiters, m_id, m_data, m_fld, m_rc, m_it, writerVars,
                    countVars, histVars >>

NextReplay == Boot \/ AofReload

SpecReplay == InitReplay /\ [][NextReplay]_vars

\* the (id, value) pairs storage_iterate hands out for table s
PairsOf(s) ==
    LET it == storage_iterate(s) IN { << it[i].id, it[i].data >> : i \in DOMAIN it }

\* C15: a second AOF_load of the same log into the same store returns and
\* leaves the store with the same (id, value) pairs, under get and under
\* iteration, as the first one did.
C15_ReplayIdempotent ==
    [][ (m_pc = "booted" /\ m_pc' # "booted" /\ m_pc' # "idle") =>
            /\ m_pc' = "reloaded"
            /\ StoreMap(st') = StoreMap(st)
            /\ PairsOf(st') = PairsOf(st) ]_vars

\* a log of three records over two keys replayed twice, the key of the first
\* record holding the value of a later record
C15_Witness ==
    /\ m_pc = "reloaded"
    /\ AofCount(aof.data, 0) = 3
    /\ st.size = 2
    /\ \E k \in ReplayKeys :
          /\ StoreMap(st)[k] # Absent
          /\ StoreMap(st)[k] # SubSeq(aof.data, 9, 8 + aof.data[5])
          /\ IntOf(SubSeq(aof.data, 1, 4)) = k

(***************************************************************************)
(* The record round trip (tests/aof_roundtrip.c).                          *)
(***************************************************************************)
\* ids at the ends of the int range, and the id of the test
RoundTripIds == {0, 7, 53, 0 - 1, 2147483647, (0 - 2147483647) - 1}

RoundTripPayloads == Payloads \cup { << >>, << 0, 255, 10, 0 >> }

\* the four reads of the loader over the bytes b of one record
ReadBack(b) ==
    LET size == IntOf(SubSeq(b, 5, 8))
    IN  [id   |-> IntOf(SubSeq(b, 1, 4)),
         size |-> size,
         buf  |-> SubSeq(b, 9, 8 + size),
         crc_file |-> SubSeq(b, 9 + size, 12 + size),
         crc  |-> crc32c(crc32c(crc32c(Zero32, SubSeq(b, 1, 4)), SubSeq(b, 5, 8)),
                         SubSeq(b, 9, 8 + size))]

\* C16: the bytes aof_write_record emits for (id, payload), read back field
\* by field as the loader reads them, give the same id, size and payload and
\* a stored crc equal to the crc recomputed over id, size and payload; and a
\* log made only of such records is replayed by AOF_load without the corrupt
\* exit, every record applied in order (the store holds, for every key, the
\* payload of its last record).
C16_RecordRoundTrip ==
    /\ \A id \in RoundTripIds, p \in RoundTripPayloads :
          LET b == RecordBytes(id, p)
              r == ReadBack(b)
          IN  /\ Len(b) = 12 + Len(p)
              /\ r.id = id /\ r.size = Len(p) /\ r.buf = p
              /\ r.crc_file = r.crc
              /\ LoadFrom(b, 0, storage_init).ok
              /\ storage_get(LoadFrom(b, 0, storage_init).st, id, BigBuf) = [ret |-> 1, out |-> p]
    /\ m_pc # "abort_load"
    /\ m_pc \in {"booted", "reloaded"} =>
          /\ StoreMap(st) = AofLast(aof.data, 0, [k \in StoreKeys |-> Absent])
          /\ st.size = Cardinality({ k \in StoreKeys : StoreMap(st)[k] # Absent })

\* a log of three records over three keys has been replayed
C16_Witness ==
    /\ m_pc = "booted"
    /\ AofCount(aof.data, 0) = 3
    /\ st.size = 3
    /\ aof.data = RecordBytes(1, << 97 >>) \o RecordBytes(2, << 120, 121 >>) \o RecordBytes(53, << 97 >>)

(***************************************************************************)
(* The load factor.                                                        *)
(***************************************************************************)
RECURSIVE IsPowerOfTwo(_)
IsPowerOfTwo(n) == n = 1 \/ (n > 1 /\ n % 2 = 0 /\ IsPowerOfTwo(n \div 2))

\* size / capacity <= 0.7, capacity a power of two, capacity >= 16
LoadFactorOk(s) ==
    /\ 10 * s.size <= 7 * s.capacity
    /\ IsPowerOfTwo(s.capacity)
    /\ s.capacity >= InitCapacity

\* C17: in every state the store reaches through saves and removes, the
\* store is within the load factor, and so is the store any storage_save
\* returns from there (insert or overwrite, growing the table or not):
\* size / capacity is at most 0.7 and capacity is a power of two >= 16.
C17_LoadFactor ==
    /\ LoadFactorOk(st)
    /\ \A k \in StoreKeys, v \in Payloads : LoadFactorOk(storage_save(st, k, v))

\* a table of capacity 16 holding 11 entries, where the overwrite of a present
\* key and the insert of an absent key both grow the table to 32
C17_Witness ==
    /\ st.capacity = 16 /\ st.size = 11
    /\ \E k \in ActiveKeys :
          /\ storage_get(st, k, BigBuf).ret = 1
          /\ storage_save(st, k, << 97 >>).capacity = 32
          /\ storage_save(st, k, << 97 >>).size = 11
    /\ \E k \in ActiveKeys :
          /\ storage_get(st, k, BigBuf).ret = 0
          /\ storage_save(st, k, << 97 >>).capacity = 32
          /\ storage_save(st, k, << 97 >>).size = 12

(***************************************************************************)
(* storage_iterate from a caller of the store.                             *)
(***************************************************************************)
\* storage_iterate(st, fn, udata) with a callback that records its arguments
Iterate ==
    /\ m_it' = storage_iterate(st)
    /\ UNCHANGED << st, storeHist, rdbVars, ring_capacity, flush_ms, peer, fsVars, fd, mode_always, ringVars, running,
                    lock, waiters, m_pc, m_id, m_data, m_fld, m_rc, writerVars,
                    countVars, histVars >>

NextIterate == NextStore \/ Iterate

SpecIterate == InitStore /\ [][NextIterate]_vars

\* the slots of s whose flag is BUCKET_OCCUPIED
OccupiedSlots(s) == { i \in 0..(s.capacity - 1) : s.flags[i] = BUCKET_OCCUPIED }

\* the calls are one per occupied slot of s, each with that slot's key, value
\* and length, and no others
VisitsOccupiedOnce(s, calls) ==
    LET occ == OccupiedSlots(s)
        nth(j) == CHOOSE i \in occ : Cardinality({ x \in occ : x < i }) = j - 1
    IN  /\ Len(calls) = Cardinality(occ)
        /\ \A j \in 1..Len(calls) :
              calls[j] = [id |-> s.keys[nth(j)], data |-> s.values[nth(j)], sz |-> s.val_sizes[nth(j)]]

\* C18: a call of storage_iterate hands the callback every occupied slot
\* exactly once, hands it no empty and no deleted slot, and leaves the flags,
\* keys, values, size and capacity of the store as they were.
C18_IterateFrame ==
    [][ (ops' = ops /\ fill' = fill) =>
            /\ st' = st
            /\ VisitsOccupiedOnce(st, m_it') ]_vars

\* the iteration of a table that holds a deleted slot between occupied ones
C18_Witness ==
    /\ m_it = storage_iterate(st)
    /\ Len(m_it) >= 2
    /\ \E i \in 1..(st.capacity - 2) :
          /\ st.flags[i] = BUCKET_DELETED
          /\ st.flags[i - 1] = BUCKET_OCCUPIED
          /\ st.flags[i + 1] = BUCKET_OCCUPIED
    /\ \E i \in 0..(st.capacity - 1) : st.flags[i] = BUCKET_EMPTY

(***************************************************************************)
(* storage_get from a caller of the store.                                 *)
(***************************************************************************)
\* rc = storage_get(st, k, out, n): m_rc is rc and m_data the bytes of out
\* (what memcpy put there, or what out held before when nothing is copied)
Get(k, n) ==
    /\ LET r == storage_get(st, k, n)
       IN  /\ m_rc' = r.ret
           /\ m_data' = IF r.ret = 1 THEN r.out ELSE m_data
    /\ m_id' = k
    /\ UNCHANGED << st, storeHist, rdbVars, ring_capacity, flush_ms, peer, fsVars, fd, mode_always, ringVars, running,
                    lock, waiters, m_pc, m_fld, m_it, writerVars,
                    countVars, histVars >>

Lookup == \E k \in ActiveKeys, n \in 0..2 : Get(k, n)

NextGet == NextStore \/ Lookup

SpecGet == InitStore /\ [][NextGet]_vars

\* the slots of s that hold key id, and among them the one the probe from
\* the home slot of id meets first
SlotsOf(s, id) == { i \in 0..(s.capacity - 1) : s.flags[i] = BUCKET_OCCUPIED /\ s.keys[i] = id }

FirstSlotOf(s, id) ==
    LET home == HashAnd(Hash(id), s.capacity)
        d(i) == (i + s.capacity - home) % s.capacity
    IN  CHOOSE i \in SlotsOf(s, id) : \A j \in SlotsOf(s, id) : d(i) <= d(j)

\* C19: for a key the table holds, storage_get with an output capacity below
\* the length of the stored value returns 0 and copies nothing, with a
\* capacity of at least that length it returns 1 (and copies the value); and
\* a call of storage_get leaves the store unchanged and the output buffer too
\* when it returns 0.
C19_GetRefusesSmallBuffer ==
    [][ /\ \A k \in ActiveKeys \cup Ids :
              SlotsOf(st, k) # {} =>
                  LET i == FirstSlotOf(st, k)
                  IN  \A n \in 0..3 :
                         storage_get(st, k, n) =
                            IF n < st.val_sizes[i]
                            THEN [ret |-> 0, out |-> NoVal]
                            ELSE [ret |-> 1, out |-> st.values[i]]
        /\ (ops' = ops /\ fill' = fill) =>
              /\ st' = st
              /\ m_rc' \in {0, 1}
              /\ m_rc' = 0 => m_data' = m_data
              /\ m_rc' = 1 => /\ SlotsOf(st, m_id') # {}
                              /\ m_data' = st.values[FirstSlotOf(st, m_id')] ]_vars

\* storage_get has refused a two-byte value (the key is held, the call
\* returned 0) and the buffer still holds the one byte of an earlier lookup
C19_Witness ==
    /\ m_rc = 0
    /\ SlotsOf(st, m_id) # {}
    /\ st.val_sizes[FirstSlotOf(st, m_id)] = 2
    /\ m_data = << 97 >>
    /\ st.size >= 2

(***************************************************************************)
(* Errors of the sync-always append.                                       *)
(***************************************************************************)
\* C20: in sync-always mode, an AOF_append in which a write of the record or
\* the fsync failed returns a nonzero result.
C20_AlwaysAppendReportsFailure ==
    [][ (mode_always /\ m_pc \in {"aw", "afsync"} /\ nFaults' > nFaults /\ m_pc' = "ret")
            => m_rc' # 0 ]_vars

(***************************************************************************)
(* Errors of the batched append.                                           *)
(***************************************************************************)
\* C21: in batched mode a record whose write to the log failed (short or
\* failed write) is reported to the caller of AOF_append, which then leaves
\* the store alone: once the handler is done and every queued record of key k
\* has been handed to aof_write_record, if all of them failed the store does
\* not hold k.
C21_BatchedWriteErrorSurfaces ==
    (~mode_always /\ m_pc = "idle" /\ nCrashes = 0 /\ nRewrites = 0 /\ Len(wlog) = Len(enq)) =>
        \A k \in Ids :
            ((\E n \in 1..Len(wlog) : wlog[n].id = k)
               /\ \A n \in 1..Len(wlog) : wlog[n].id = k => ~wlog[n].ok)
            => StoreMap(st)[k] = Absent

(***************************************************************************)
(* A rewrite that fails.                                                   *)
(***************************************************************************)
\* the records of a log taken by their framing, in order
RECURSIVE RecordsOf(_, _)
RecordsOf(data, pos) ==
    IF Len(data) - pos < 12 THEN << >>
    ELSE LET size == data[pos + 5] + 256 * data[pos + 6]
         IN  << SubSeq(data, pos + 1, pos + 12 + size) >> \o RecordsOf(data, pos + 12 + size)

\* the temp file holds one whole record for every entry of the dumped table
TmpComplete == tmp.ex /\ tmp.data = Flatten(storage_iterate(RewriteSource.st))

\* C22: when AOF_rewrite cannot produce a complete temp file (the open of the
\* temp file fails, a record written to it fails, or the rename fails), the
\* file at the AOF path holds afterwards every record it held before.
C22_FailedRewriteKeepsLog ==
    [][ (/\ m_pc' # "down"
         /\ \/ m_pc = "rw_open" /\ m_pc' = "idle"
            \/ m_pc = "rw_rename" /\ (nFaults' > nFaults \/ ~TmpComplete))
        => /\ aof'.ex
           /\ \A i \in 1..Len(RecordsOf(aof.data, 0)) :
                 \E j \in 1..Len(RecordsOf(aof'.data, 0)) :
                     RecordsOf(aof'.data, 0)[j] = RecordsOf(aof.data, 0)[i] ]_vars

(***************************************************************************)
(* The snapshot timer firing more than once.                               *)
(***************************************************************************)
\* timer ticks of one run
MaxTicks == 2

TimerTick == nSnaps < MaxTicks /\ SnapshotFork

\* a sync-always worker whose snapshot timer fires repeatedly
NextSnapshots ==
    \/ Boot
    \/ \E id \in Ids, data \in Payloads : HandlerStart(id, data)
    \/ AlwaysWrite \/ AlwaysFsync \/ HandlerFinish
    \/ TimerTick \/ Kid

SpecSnapshots == InitAlways /\ [][NextSnapshots]_vars

\* the forked children that have not called _exit
LiveKids == { i \in DOMAIN kids : kids[i].pc # "exit" }

\* C23: a timer tick that fires while the child of an earlier tick is still
\* there starts no new child: at most one snapshot child exists at any time.
C23_NoOverlappingSnapshots == Cardinality(LiveKids) <= 1

(***************************************************************************)
(* tests/crc32c_test.c.                                                    *)
(***************************************************************************)
\* "123456789" and "hello world"
Digits9 == << 49, 50, 51, 52, 53, 54, 55, 56, 57 >>
HelloWorld == << 104, 101, 108, 108, 111, 32, 119, 111, 114, 108, 100 >>

\* the messages handed to assert_crc: the two vectors and their substrings
TestMessages ==
    UNION { { SubSeq(v, i, j) : i \in 1..Len(v), j \in 0..Len(v) } : v \in {Digits9, HelloWorld} }

\* uint32_t c = crc32c(0, msg, strlen(msg))
AssertCrc(msg) ==
    /\ m_pc = "down"
    /\ m_data' = msg
    /\ m_rc' = IntOf(crc32c(Zero32, msg))
    /\ UNCHANGED << st, storeHist, rdbVars, ring_capacity, flush_ms, peer, fsVars, fd, mode_always, ringVars, running,
                    lock, waiters, m_pc, m_id, m_fld, m_it, writerVars,
                    countVars, histVars >>

CrcTest == \E msg \in TestMessages : AssertCrc(msg)

SpecCrcTest == InitAlways /\ [][CrcTest]_vars

\* C24: crc32c with seed 0 gives 0xE3069283 for the 9 bytes "123456789" and
\* 0xC99465AA for the 11 bytes "hello world".
C24_CrcVectors ==
    /\ m_data = Digits9 => m_rc = IntOf(<< 131, 146, 6, 227 >>)
    /\ m_data = HelloWorld => m_rc = IntOf(<< 170, 101, 148, 201 >>)

\* the crc of "hello world" has been computed
C24_Witness == m_data = HelloWorld /\ LE32(m_rc) = << 170, 101, 148, 201 >>

(***************************************************************************)
(* The store against the map of the latest operations.                     *)
(***************************************************************************)
\* C25: after every sequence of saves and removes, storage_get(id) with a
\* large enough buffer hits exactly when the latest operation on id was a
\* save, and then returns the value of that save; after remove(id) it misses
\* until the next save(id), whatever is done to other keys and across resizes.
C25_RefinesMap ==
    \A k \in StoreKeys :
        storage_get(st, k, BigBuf) =
            IF last[k] # Absent THEN [ret |-> 1, out |-> last[k]] ELSE [ret |-> 0, out |-> NoVal]

\* C26: after every sequence of saves and removes no two occupied slots hold
\* the same key.
C26_KeyUniqueness ==
    \A i, j \in 0..(st.capacity - 1) :
        (st.flags[i] = BUCKET_OCCUPIED /\ st.flags[j] = BUCKET_OCCUPIED /\ st.keys[i] = st.keys[j])
            => i = j

(***************************************************************************)
(* Shutdown of a batched worker under fair scheduling.                     *)
(***************************************************************************)
NextShutdownLive == NextLive \/ Shutdown

MainOrShutdownStep == MainStep \/ Shutdown

\* a batched worker that serves requests and is then shut down, its threads
\* scheduled fairly
SpecShutdownLive ==
    /\ InitBatch
    /\ [][NextShutdownLive]_vars
    /\ WF_vars(Writer)
    /\ WF_vars(MainOrShutdownStep)

\* C27: in batched mode AOF_shutdown, once called, eventually returns: the
\* writer thread exits and pthread_join completes, for every interleaving of
\* the call with the writer thread.
C27_ShutdownTerminates == (m_pc = "sd_signal") ~> (m_pc = "stopped")

(***************************************************************************)
(* A batched worker configured with the smallest rings.                    *)
(***************************************************************************)
\* ring_capacity 1 rounds to a ring of one slot, 2 to a ring of two
SmallRings == {1, 2}

InitSmallRing ==
    /\ ProcessDown
    /\ last = [k \in StoreKeys |-> Absent] /\ fill = 0 /\ ops = 0
    /\ flush_ms = 10
    /\ ring_capacity \in SmallRings
    /\ aof = NoFile /\ tmp = NoFile
    /\ rdb = NoFile /\ rdbtmp = NoFile /\ kids = << >> /\ nSnaps = 0 /\ m_ino = "none"
    /\ peer = PeerIdle
    /\ nAppends = 0 /\ nFaults = 0 /\ nCrashes = 0 /\ nRewrites = 0
    /\ crash_img = NoImg

\* the threads are scheduled fairly and a thread that keeps finding the mutex
\* free again and again eventually takes it
SpecAppendLive ==
    /\ InitSmallRing
    /\ [][NextLive]_vars
    /\ WF_vars(Writer)
    /\ SF_vars(MainStep)

\* C28: in batched mode with the writer thread running, every call of
\* AOF_append eventually returns, for every configured ring capacity >= 1.
C28_AppendTerminates == (m_pc = "ap") ~> (m_pc = "ret")

(***************************************************************************)
(* Ownership of the queued payloads.                                       *)
(***************************************************************************)
\* the payload copies made by AOF_append that no drain loop has freed yet
\* (a drain loop frees the payload of every record it hands to
\* aof_write_record)
Unfreed == Len(enq) - Len(wlog)

\* C29: every payload copy enqueued by AOF_append is freed exactly once: the
\* drain loops of the writer thread and of AOF_rewrite free the queued
\* payloads one by one and none twice, and none is left unfreed once
\* AOF_shutdown has returned.
C29_PayloadFreedOnce ==
    (~mode_always /\ cap > 0) =>
        /\ Unfreed >= 0
        /\ \A n \in 1..Len(wlog) : n <= Len(enq) /\ wlog[n].id = enq[n].id /\ wlog[n].data = enq[n].data
        /\ Unfreed = (head + cap - tail) % cap
        /\ m_pc = "stopped" => Unfreed = 0

(***************************************************************************)
(* Occupancy of the ring.                                                  *)
(***************************************************************************)
\* the ring slots that hold an entry not yet consumed
PendingSlots == { (tail + i) % cap : i \in 0..(Unfreed - 1) }

\* C30: in batched mode head and tail stay within [0, capacity), the number
\* of pending entries is (head - tail) mod capacity and at most capacity - 1,
\* and AOF_append never stores into a slot that holds an entry not yet
\* consumed.
C30_RingOccupancy ==
    [][ /\ (~mode_always' /\ cap' > 0) =>
              /\ head' \in 0..(cap' - 1)
              /\ tail' \in 0..(cap' - 1)
              /\ Unfreed' = (head' + cap' - tail') % cap'
              /\ Unfreed' <= cap' - 1
        /\ (m_pc = "ap" /\ m_pc' = "ret") =>
              /\ head \notin PendingSlots
              /\ ring'[head] = [id |-> m_id, sz |-> Len(m_data), data |-> m_data]
              /\ \A i \in PendingSlots : ring'[i] = ring[i] ]_vars

\* AOF_append has stored one entry in a ring of capacity 2 and, called again,
\* finds the ring full and waits
C30_Witness ==
    /\ cap = 2 /\ m_pc = "ap_wait"
    /\ Unfreed = cap - 1
    /\ PendingSlots = {tail}
    /\ ring[tail].data # NoVal

(***************************************************************************)
(* C31: mutex discipline of the batched log.  While the writer thread      *)
(* exists, the writer is inside its drain section (wait test, record       *)
(* writes, fsync, signal) only as the holder of the mutex, AOF_rewrite is  *)
(* between its flush loop and its unlock only as the holder of the mutex,  *)
(* and every step that moves tail or writes or fsyncs the log through fd   *)
(* is taken by the holder, who keeps the mutex across the step.  Hence the *)
(* writer is never writing or fsyncing while fd is closed between          *)
(* AOF_rewrite's close(fd) and its reopen.                                 *)
(***************************************************************************)
WriterSection == {"wait", "wr", "fsync", "unlock"}

RewriteSection == {"rw_wr", "rw_fsync", "rw_close", "rw_rename", "rw_reopen", "rw_unlock"}

HoldsMutex ==
    /\ w_pc \in WriterSection => lock = "writer"
    /\ m_pc \in RewriteSection => lock = "main"
    /\ (fd = "closed" /\ m_pc \in {"rw_rename", "rw_reopen"}) => w_pc \notin {"wr", "fsync"}

\* C31: in batched mode head, tail and the live log fd are read and modified
\* only by the thread that holds the mutex, and the writer thread never writes
\* or fsyncs between AOF_rewrite's close of the old fd and its reopen.
C31_MutexDiscipline ==
    [][(~mode_always /\ w_pc \notin {"off", "done"} /\ m_pc' # "down")
         => /\ HoldsMutex
            /\ (tail' # tail \/ w_pc \in {"wr", "fsync"} \/ m_pc \in {"rw_wr", "rw_fsync"} \/ fd' # fd)
                 => lock \in {"writer", "main"} /\ lock' = lock
            /\ head' # head => m_pc = "ap" /\ lock = "none"]_vars

\* the rewrite has closed the old fd and not yet reopened it while the
\* writer thread is blocked at its pthread_mutex_lock
C31_Witness ==
    /\ ~mode_always /\ fd = "closed" /\ m_pc = "rw_reopen" /\ lock = "main"
    /\ w_pc = "lock" /\ Len(wlog) = 0 /\ Len(enq) = 0 /\ nAppends > 0

(***************************************************************************)
(* C32: group commit.  A drain pass of the writer thread writes every      *)
(* queued record in ring order (when it reaches its fsync the ring is      *)
(* empty and the records taken are the records enqueued, in order), then   *)
(* calls fsync once, and only after that fsync signals and releases the    *)
(* mutex; it holds the mutex from the first record to the fsync.           *)
(***************************************************************************)
C32_GroupCommit ==
    [][(~mode_always /\ m_pc' # "down")
         => /\ w_pc = "fsync"
                 => /\ head = tail /\ lock = "writer"
                    /\ Len(wlog) = Len(enq)
                    /\ \A i \in 1..Len(wlog) :
                         wlog[i].id = enq[i].id /\ wlog[i].data = enq[i].data
            /\ w_pc = "wr" => w_pc' \in {"wr", "fsync"} /\ lock' = "writer"
            /\ (w_pc = "wr" /\ w_pc' = "fsync") => head = tail'
            /\ (w_pc = "fsync" /\ w_pc' # "fsync")
                 => /\ w_pc' = "unlock" /\ lock' = "writer"
                    /\ aof' = Fsynced(aof) \/ nFaults' > nFaults
            /\ (w_pc' = "unlock" /\ w_pc # "unlock") => w_pc = "fsync"
            /\ (w_pc = "unlock" /\ w_pc' # "unlock")
                 => w_pc' = "tlock" /\ lock' = "none" /\ aof' = aof]_vars

\* two records written in one pass, none of them synced yet, the writer at
\* its fsync
C32_Witness ==
    /\ ~mode_always /\ w_pc = "fsync" /\ Len(wlog) = 2 /\ nFaults = 0 /\ nRewrites = 0
    /\ aof.synced = 0 /\ head = tail
    /\ aof.data = RecordBytes(wlog[1].id, wlog[1].data) \o RecordBytes(wlog[2].id, wlog[2].data)

(***************************************************************************)
(* C33: strict framing on replay.                                          *)
(***************************************************************************)
\* the bytes of data from offset pos on are exactly a concatenation of whole
\* records whose stored crc matches
RECURSIVE ExactRecords(_, _)
ExactRecords(data, pos) ==
    LET rem == Len(data) - pos
        idb == SubSeq(data, pos + 1, pos + 4)
        szb == SubSeq(data, pos + 5, pos + 8)
        size == szb[1] + 256 * szb[2]
        buf == SubSeq(data, pos + 9, pos + 8 + size)
    IN
    IF rem = 0 THEN TRUE
    ELSE IF rem < 8 THEN FALSE
    ELSE IF szb[3] # 0 \/ szb[4] # 0 \/ rem < 12 + size THEN FALSE
    ELSE IF SubSeq(data, pos + 9 + size, pos + 12 + size)
              # crc32c(crc32c(crc32c(Zero32, idb), szb), buf) THEN FALSE
    ELSE ExactRecords(data, pos + 12 + size)

\* C33: AOF_load returns normally only when the file at the AOF path is
\* exactly a concatenation of complete, CRC-valid records; a file that ends
\* in bytes that are not a complete record (1 to 3 stray bytes included)
\* takes the corruption exit.
C33_StrictFraming ==
    (m_pc = "booted" /\ aof.ex) => ExactRecords(aof.data, 0)

\* C34: in sync-always mode, when AOF_append returns failure because a write
\* of the record failed or was short, an AOF_load of the log as it is then
\* returns normally, and so does an AOF_load after one more successful
\* append, which it applies.
C34_FailedAppendLeavesLogReplayable ==
    [][(mode_always /\ m_pc = "aw" /\ m_pc' = "ret" /\ nFaults' > nFaults)
         => /\ AOF_load(aof', storage_init).ok
            /\ \A id \in Ids, data \in Payloads :
                 LET later == [aof' EXCEPT !.data = aof'.data \o RecordBytes(id, data)]
                     r == AOF_load(later, storage_init)
                 IN  r.ok /\ StoreMap(r.st)[id] = data]_vars

(***************************************************************************)
(* C35: appends after a rewrite reach the new log.  Once AOF_rewrite has   *)
(* returned, every write of a record field, by AOF_append in sync-always   *)
(* mode or by the writer thread, is issued on a descriptor that is open on *)
(* the file now at the AOF path and extends that file; with no failed      *)
(* call, the file is the compacted records followed by exactly the records *)
(* written since, in order.                                                *)
(***************************************************************************)
AfterRewrite == nRewrites > 0 /\ m_pc \in {"idle", "aw", "afsync", "ap", "ap_wait", "ret"}

WritesAField ==
    \/ w_pc = "wr" /\ (w_fld' # w_fld \/ wlog' # wlog)
    \/ m_pc = "aw" /\ (m_fld' # m_fld \/ m_pc' # "aw")

NextDumpers ==
    \/ Boot
    \/ \E id \in Ids, data \in Payloads : HandlerStart(id, data)
    \/ AlwaysWrite \/ AlwaysFsync \/ HandlerFinish
    \/ SnapshotTick \/ Kid
    \/ CompactStart \/ RdbCompact
    \/ RwOpen \/ RwLoad \/ RwDump \/ RwClose \/ RwRename \/ RwReopen

SpecDumpers == InitAlways /\ [][NextDumpers]_vars

\* C36: for every interleaving of a snapshot child and Persistence_compact,
\* with no failed call, a file at the RDB path is a complete snapshot whose
\* footer matches its records, and load_rdb does not abort on it.
C36_SnapshotFileIntegrity ==
    (rdb.ex /\ nFaults = 0) =>
        ValidSnapshot(rdb.data) /\ load_rdb(rdb, storage_init).ok

(***************************************************************************)
(* cluster.c: every worker process runs init_worker_systems with the same  *)
(* path ./append.aof.  A second worker in sync-always mode serving         *)
(* POST /users: its AOF_append issues the four writes of aof_write_record  *)
(* on its own O_APPEND descriptor of the same file, then fsync.            *)
(***************************************************************************)
MaxPeerAppends == 1

PeerStart(id, data) ==
    /\ peer.pc = "idle" /\ peer.n < MaxPeerAppends
    /\ aof.ex /\ m_pc \notin {"down", "aof_init", "aof_load", "abort_load", "abort_rdb"}
    /\ peer' = [peer EXCEPT !.pc = "aw", !.id = id, !.data = data, !.fld = 0, !.n = @ + 1]
    /\ UNCHANGED << st, storeHist, rdbVars, ring_capacity, flush_ms, fsVars, fd, mode_always, ringVars,
                    running, lock, waiters, mainVars, writerVars, countVars, histVars >>

PeerRequest == \E id \in Ids, data \in Payloads : PeerStart(id, data)

\* one safe_write of the peer: an O_APPEND write lands at the end of the file
PeerWrite ==
    /\ peer.pc = "aw"
    /\ aof' = [aof EXCEPT !.data = @ \o RecordFields(peer.id, peer.data)[peer.fld + 1]]
    /\ peer' = IF peer.fld = 3 THEN [peer EXCEPT !.pc = "afsync", !.fld = 0]
               ELSE [peer EXCEPT !.fld = @ + 1]
    /\ UNCHANGED << st, storeHist, rdbVars, ring_capacity, flush_ms, tmp, fd, mode_always, ringVars,
                    running, lock, waiters, mainVars, writerVars, countVars, histVars >>

\* fsync(fd); return 0 in the peer
PeerFsync ==
    /\ peer.pc = "afsync"
    /\ aof' = Fsynced(aof)
    /\ peer' = [peer EXCEPT !.pc = "idle"]
    /\ UNCHANGED << st, storeHist, rdbVars, ring_capacity, flush_ms, tmp, fd, mode_always, ringVars,
                    running, lock, waiters, mainVars, writerVars, countVars, histVars >>

Peer == PeerRequest \/ PeerWrite \/ PeerFsync

\* two sync-always workers on one log
NextShared ==
    \/ Boot
    \/ \E id \in Ids, data \in Payloads : HandlerStart(id, data)
    \/ AlwaysWrite \/ AlwaysFsync \/ HandlerFinish
    \/ Peer

SpecShared == InitAlways /\ [][NextShared]_vars

\* C37: when two workers append to the same AOF path concurrently, with no
\* failed call, the fields of every record are contiguous in the file: once
\* both workers are between requests the log is a concatenation of whole
\* records and AOF_load replays it without the corruption abort.
C37_SharedLogIntegrity ==
    (m_pc = "idle" /\ peer.pc = "idle" /\ nFaults = 0 /\ aof.ex) =>
        ExactRecords(aof.data, 0) /\ AOF_load(aof, storage_init).ok

(***************************************************************************)
(* A table at capacity 16 in which saves and removes have left no empty    *)
(* slot: eleven keys with home slots 0..10 are saved, the five in slots    *)
(* 0..4 are removed, and five keys with home slots 11..15 are saved.       *)
(***************************************************************************)
\* 6, 12, 3, 5 and 16 have home slots 11, 12, 13, 14 and 15 at capacity 16
HighKeys == << 6, 12, 3, 5, 16 >>

ChurnScript ==
    [i \in 1..11 |-> [op |-> "save", k |-> << 1, 2, 42, 23, 41, 17, 7, 15, 18, 25, 27 >>[i]]]
    \o [i \in 1..5 |-> [op |-> "remove", k |-> << 1, 2, 42, 23, 41 >>[i]]]
    \o [i \in 1..5 |-> [op |-> "save", k |-> HighKeys[i]]]

\* the next call of the script: storage_save(st, k, FillVal) or storage_remove(st, k)
Churn ==
    /\ fill < Len(ChurnScript)
    /\ ops = 0
    /\ LET c == ChurnScript[fill + 1]
       IN  /\ st' = IF c.op = "save" THEN storage_save(st, c.k, FillVal)
                    ELSE storage_remove(st, c.k)
           /\ last' = IF c.k \notin StoreKeys THEN last
                      ELSE [last EXCEPT ![c.k] = IF c.op = "save" THEN FillVal ELSE Absent]
    /\ fill' = fill + 1
    /\ UNCHANGED << ops, engineVars >>

\* calls on the free keys once the script has started to remove
ChurnSave == fill >= 11 /\ \E k \in ActiveKeys, v \in Payloads : Save(k, v)
ChurnRemove == fill >= 11 /\ \E k \in ActiveKeys : Remove(k)
ChurnLookup == fill >= 11 /\ Lookup

NextTombstones == Churn \/ ChurnSave \/ ChurnRemove \/ ChurnLookup

SpecTombstones == InitStore /\ [][NextTombstones]_vars

\* the keys whose probes are counted: the free keys, a key of every home slot
\* in the script, and the keys of the high slots
ProbeKeys == ActiveKeys \cup {1, 42, 17, 27} \cup { HighKeys[i] : i \in 1..Len(HighKeys) }

NoEmptySlot(s) == \A i \in 0..(s.capacity - 1) : s.flags[i] # BUCKET_EMPTY

\* C38: in every reachable store state some slot is not occupied, also in the
\* table storage_save probes after its growth test, so its loop returns within
\* capacity probes; storage_get and storage_remove examine at most capacity
\* slots, also when no slot of the table is empty.
C38_StoreOpsTerminate ==
    /\ \E i \in 0..(st.capacity - 1) : st.flags[i] # BUCKET_OCCUPIED
    /\ \A k \in ProbeKeys :
         /\ LookupProbes(st, k, HashAnd(Hash(k), st.capacity), 0) <= st.capacity
         /\ LET t == IF NeedsGrow(st) THEN storage_rehash(st) ELSE st
            IN  /\ \E i \in 0..(t.capacity - 1) : t.flags[i] # BUCKET_OCCUPIED
                /\ SaveProbes(t, HashAnd(Hash(k), t.capacity), 0, k, 1) <= t.capacity

\* a lookup of the absent key 33 has returned 0 after examining all 16 slots
\* of a table that holds tombstones and no empty slot
C38_Witness ==
    /\ st.capacity = 16 /\ NoEmptySlot(st)
    /\ \E i \in 0..15 : st.flags[i] = BUCKET_DELETED
    /\ m_id = 33 /\ m_rc = 0
    /\ LookupProbes(st, 33, HashAnd(Hash(33), 16), 0) = 16

\* C39: a resize inside storage_save doubles the capacity, leaves no deleted
\* slot in the new table and carries over exactly the (key, value) pairs and
\* the size the table held before; the entry being saved is added to that.
C39_ResizePreservesContents ==
    [][(st'.capacity # st.capacity) =>
         LET t == storage_rehash(st)
         IN  /\ t.capacity = 2 * st.capacity
             /\ \A i \in 0..(t.capacity - 1) : t.flags[i] # BUCKET_DELETED
             /\ PairsOf(t) = PairsOf(st)
             /\ t.size = st.size
             /\ \E k \in StoreKeys, v \in Payloads \cup {FillVal} :
                  st' = SaveProbe(t, HashAnd(Hash(k), t.capacity), 0, k, v)]_vars

====
